---- MODULE Spec2Model ----
(***************************************************************************)
(* Gameplay simulation core of the 3D FPS: the wave/spawn director         *)
(* (EnemyManager), the enemy life cycle and AI state machine (Enemy) and   *)
(* the browser's frame / timer scheduling that drives them (Game.animate,  *)
(* setTimeout, requestAnimationFrame).                                     *)
(*                                                                         *)
(* Units.  Lengths are in quarter world units (1 unit = 4), times in       *)
(* milliseconds, speeds in quarter units per second, the spawn multiplier  *)
(* in halves (0.5 + 0.5*level = (level + 1) / 2).  Squared distances to    *)
(* the player are scaled by 100, so that the eye height 1.7 is exact.      *)
(* Sampled positions lie on the line z = -15 (angle 0 or pi), which keeps  *)
(* every normalised direction a sign.  The speed of the vehicle the player *)
(* drives is in 1/1000 of a unit per second.                               *)
(***************************************************************************)
EXTENDS Integers, Sequences, FiniteSets, TLC

VARIABLES
    isRunning,              \* Game.isRunning
    initialized,            \* Game.init has run EnemyManager.init
    collidables,            \* World.collidables
    enemies,                \* EnemyManager.enemies
    killCount,              \* EnemyManager.killCount
    currentWave,            \* EnemyManager.currentWave
    waveTotalEnemies,       \* EnemyManager.waveTotalEnemies
    waveEnemiesSpawned,     \* EnemyManager.waveEnemiesSpawned
    waveKilled,             \* EnemyManager.waveKilled
    waveInProgress,         \* EnemyManager.waveInProgress
    maxSimultaneousEnemies, \* EnemyManager.maxSimultaneousEnemies
    spawnMultiplier,        \* EnemyManager.spawnMultiplier in halves, 0 = undefined
    waveTimers,             \* pending setTimeout callbacks of completeWave: ms left
    player,                 \* Game.player: the fields of Player
    drops,                  \* LootManager.drops: where each lies, its draw unread
    history                 \* what has been called so far (observation only)

vars == <<isRunning, initialized, collidables, enemies, killCount, currentWave,
          waveTotalEnemies, waveEnemiesSpawned, waveKilled, waveInProgress,
          maxSimultaneousEnemies, spawnMultiplier, waveTimers, player, drops,
          history>>

----------------------------------------------------------------------------
(* Bounds of the exploration.                                              *)

MaxWave == 2          \* the wave-advance timer is explored up to this wave
MaxEnemies == 9       \* length of the enemy list explored by Spec
MaxImpacts == 2       \* frames with a vehicle impact explored by Spec
MaxLevelSets == 1     \* moves of the difficulty slider explored by Spec
MaxFramesE == 3       \* animation frames explored by SpecEnemy
MaxShotsE == 1        \* calls of takeDamage by shots explored by SpecEnemy
MaxFramesS == 3       \* animation frames explored by SpecSpawn
MaxLoads == 1         \* asynchronous model loads explored by SpecSpawn
MaxEnemiesD == 12     \* length of the enemy list explored by SpecDifficulty
MaxLevelSetsD == 1    \* moves of the difficulty slider explored by SpecDifficulty
MaxImpactsD == 40     \* frames with a vehicle impact explored by SpecDifficulty
MaxEnemiesA == 8       \* length of the enemy list explored by SpecAttack
MaxFramesA == 7        \* animation frames explored by SpecAttack
GapWindow == 2000     \* the time between two attacks is measured up to this, in ms
MaxShotsF == 13             \* fire attempts in the fire scope
MaxFramesF == 13            \* frames in the fire scope
MaxShotsW == 2              \* fire attempts in the weapon scope
MaxFramesW == 2             \* frames in the weapon scope
MaxKeysW == 1               \* presses of R in the weapon scope
MaxSwitchesW == 2           \* calls of switchWeapon in the weapon scope
MaxFramesJ == 8             \* frames in the jump scope
MaxKeysJ == 4               \* presses of Space in the jump scope
MaxFramesL == 4             \* running frames in the loot scope
MaxHats == 3                \* hats collected in the loot scope
MaxFramesC == 5             \* running frames in the pursuit scope
MaxFramesP == 8             \* running frames in the patrol scope
MaxFramesR == 3             \* running frames in the ray scope
MaxShotsR == 2              \* shots in the ray scope
MaxFramesG == 7             \* running frames in the lunge scope
MaxFramesV == 3             \* running frames in the driving scope
MaxFramesX == 3             \* running frames in the boarding scope
MaxFramesM == 3             \* running frames in the ramming scope
MaxFramesN == 3             \* running frames in the gunner scope
MaxShotsN == 2              \* fire attempts in the gunner scope
MaxKeysN == 2               \* presses of E in the gunner scope
MaxShotsL == 1              \* fire attempts in the reload scope
MaxKeysL == 2               \* key presses in the reload scope

----------------------------------------------------------------------------
(* Program constants.                                                      *)

MaxAttempts == 20           \* spawnEnemy: while (attempts < 20)
WaveDelay == 5000           \* completeWave: setTimeout(..., 5000)
DeathDuration == 500        \* die: const duration = 500
ShotDamage == 25            \* Player.shoot: enemy.takeDamage(25)
PatrolWaitTime == 2000      \* Enemy.patrolWaitTime = 2
PatrolRadius == 60          \* Enemy.patrolRadius = 15
AttackRange == 8            \* Enemy.attackRange = 2
LoseInterestRange == 120    \* Enemy.loseInterestRange = 30
EyeHeightSq100 == 4624      \* (Player.playerHeight 1.7 * 4)^2 * 100
LungeStep == 30             \* direction.multiplyScalar(0.3), in hundredths
LungeTime == 100            \* setTimeout(..., 100)
SpawnZ == -60               \* sin(angle) * distance - 15 at angle 0 or pi
DefaultMultiplier == 3      \* startWave: this.spawnMultiplier || 1.5
DefaultCap == 8             \* caps[level - 1] || 8, and the constructor's 8
VehicleMinSpeed == 5000     \* Math.abs(this.vehicleSpeed) > 5.0, in 1/1000
VehicleReach == 20          \* vehicle.position.distanceTo(...) < 5.0
VehicleMaxSpeed == 25000    \* const maxSpeed = 25.0, in 1/1000
VehicleAcceleration == 15   \* const acceleration = 15.0: 1/1000 per ms
VehicleFriction == 10       \* const friction = 10.0: 1/1000 per ms
VehicleCreep == 100         \* Math.abs(this.vehicleSpeed) > 0.1, in 1/1000
BounceStop == 1000          \* Math.abs(this.vehicleSpeed) < 1, in 1/1000
ExitLift == 50              \* position.y = playerHeight + 0.5: feet, in cm
FullHealth == 100           \* Player.health = 100, Math.min(100, ...)
PotionHealth == 25          \* collectLoot: this.health + 25
CoinMoney == 10             \* collectLoot: this.money += 10
MaxJumps == 2               \* Player.maxJumps
JumpForce == 800            \* Player.jumpForce = 8, in cm/s
Gravity == 2500             \* Player.gravity = 25, in cm/s^2
StartAmmo == 30             \* Player.ammo = Player.maxAmmo = 30 in the constructor
StartShootRate == 150       \* Player.shootRate = 0.15, in ms

EnemySTATE == [IDLE |-> "idle", PATROL |-> "patrol", CHASE |-> "chase",
          ATTACK |-> "attack", DEAD |-> "dead"]

EnemyTYPE == {"robot", "ghost", "zombie", "demon"}

LiveStates == {EnemySTATE.IDLE, EnemySTATE.PATROL, EnemySTATE.CHASE, EnemySTATE.ATTACK}

\* Enemy.applyTypeStats over the constructor's defaults.
TypeStats(type) ==
    CASE type = "robot"  -> [health |-> 150, damage |-> 15, speed |-> 8,
                             chaseSpeed |-> 16, detectionRange |-> 80,
                             attackRate |-> 1000]
      [] type = "ghost"  -> [health |-> 60, damage |-> 8, speed |-> 16,
                             chaseSpeed |-> 28, detectionRange |-> 100,
                             attackRate |-> 1000]
      [] type = "zombie" -> [health |-> 120, damage |-> 12, speed |-> 6,
                             chaseSpeed |-> 12, detectionRange |-> 80,
                             attackRate |-> 1500]
      [] type = "demon"  -> [health |-> 100, damage |-> 20, speed |-> 14,
                             chaseSpeed |-> 24, detectionRange |-> 80,
                             attackRate |-> 800]

----------------------------------------------------------------------------
(* Geometry.                                                               *)

Sgn(n) == IF n > 0 THEN 1 ELSE IF n < 0 THEN -1 ELSE 0

Abs(n) == IF n < 0 THEN -n ELSE n

Max(a, b) == IF a >= b THEN a ELSE b

Min(a, b) == IF a <= b THEN a ELSE b

\* The element of a one-element set: a value worked out once and then named.
Only(S) == CHOOSE x \in S : TRUE

\* Vector3.distanceTo between two points at the same height, squared.
DistSq(a, b) == (a.x - b.x) * (a.x - b.x) + (a.z - b.z) * (a.z - b.z)

\* Enemy.distanceToPlayer: mesh (height 0) to the camera at eye height,
\* squared and scaled by 100.
distanceToPlayerSq100(e, camera) == 100 * DistSq(e.mesh, camera) + EyeHeightSq100

\* Enemy.attack moves mesh.position 0.3 towards the camera and puts it back
\* in a timeout 100 ms later. The field mesh of an enemy is its position
\* without that displacement and lunge the time left until the timeout, 0
\* when none is pending: the simulation reads mesh.position, which is mesh
\* displaced by Lunged, in hundredths of a unit.
Lunged(e) == IF e.lunge > 0 THEN LungeStep ELSE 0

\* distanceToPlayer() > r2 / 2 quarter units, read from the displaced mesh:
\* the displacement lies on the line to the camera and shortens the
\* distance by its length.
Beyond(e, camera, r2) ==
    25 * distanceToPlayerSq100(e, camera) > (25 * r2 + 2 * Lunged(e)) * (25 * r2 + 2 * Lunged(e))

\* World.createGround: a 200 x 200 plane named 'ground'.
Ground == [name |-> "ground", minX |-> -400, maxX |-> 400,
           minZ |-> -400, maxZ |-> 400]

----------------------------------------------------------------------------
(* Enemy.                                                                  *)

\* The offsets Math.cos(angle) * Math.random() * patrolRadius of
\* pickNewPatrolTarget for angle 0 and the draws rands, in thousandths.
PatrolOffs(rands) == {(rand * PatrolRadius) \div 1000 : rand \in rands}

\* pickNewPatrolTarget that draws around where the enemy stands.
pickNewPatrolTargetFromMesh(e, off) ==
    [e EXCEPT !.targetPosition = [x |-> e.mesh.x + off, z |-> e.mesh.z]]

\* Enemy.pickNewPatrolTarget: a point within patrolRadius of the spawn
\* origin; off is cos(angle) * distance for angle 0 or pi.
pickNewPatrolTarget(e, off) ==
    [e EXCEPT !.targetPosition = [x |-> e.position.x + off, z |-> e.position.z]]

\* new Enemy(game, position) followed by enemy.init().
NewEnemy(position, type, off) ==
    pickNewPatrolTarget(
        [type |-> type, state |-> EnemySTATE.PATROL, position |-> position,
         mesh |-> position, targetPosition |-> position,
         health |-> TypeStats(type).health, attackCooldown |-> 0,
         stateTimer |-> 0, deathElapsed |-> -1, inScene |-> TRUE,
         lunge |-> 0], off)

\* Enemy.checkObstacleCollision: circle of radius 0.5 against the boxes of
\* the collidables named obstacle_*.
checkObstacleCollision(p, coll) ==
    \E o \in coll :
        /\ o.name = "obstacle_child"
        /\ LET closestX == Max(o.minX, Min(p.x, o.maxX))
               closestZ == Max(o.minZ, Min(p.z, o.maxZ))
               distX == p.x - closestX
               distZ == p.z - closestZ
           IN distX * distX + distZ * distZ < 2 * 2

\* Enemy.moveToward: a step of speed * delta along the normalised direction,
\* with axis-independent sliding.
moveToward(e, target, speed, delta, coll) ==
    LET step == (speed * delta) \div 1000
        newX == e.mesh.x + Sgn(target.x - e.mesh.x) * step
        newZ == e.mesh.z + Sgn(target.z - e.mesh.z) * step
    IN IF ~checkObstacleCollision([x |-> newX, z |-> newZ], coll)
       THEN [e EXCEPT !.mesh = [x |-> newX, z |-> newZ]]
       ELSE IF ~checkObstacleCollision([x |-> newX, z |-> e.mesh.z], coll)
       THEN [e EXCEPT !.mesh = [x |-> newX, z |-> e.mesh.z]]
       ELSE IF ~checkObstacleCollision([x |-> e.mesh.x, z |-> newZ], coll)
       THEN [e EXCEPT !.mesh = [x |-> e.mesh.x, z |-> newZ]]
       ELSE e

\* Enemy.updateIdle
updateIdle(e, delta, off) ==
    LET t == e.stateTimer - delta
    IN IF t <= 0
       THEN pickNewPatrolTarget([e EXCEPT !.stateTimer = t, !.state = EnemySTATE.PATROL], off)
       ELSE [e EXCEPT !.stateTimer = t]

\* Enemy.updatePatrol
updatePatrol(e, delta, coll) ==
    IF DistSq(e.mesh, e.targetPosition) * 4 < 4 * 4
    THEN [e EXCEPT !.state = EnemySTATE.IDLE, !.stateTimer = PatrolWaitTime]
    ELSE moveToward(e, e.targetPosition, TypeStats(e.type).speed, delta, coll)

\* Enemy.updateChase
updateChase(e, delta, camera, coll) ==
    IF ~Beyond(e, camera, 2 * AttackRange)
    THEN [e EXCEPT !.state = EnemySTATE.ATTACK]
    ELSE moveToward(e, camera, TypeStats(e.type).chaseSpeed, delta, coll)

\* Enemy.updateAttack
updateAttack(e, camera) ==
    IF Beyond(e, camera, 3 * AttackRange)
    THEN [e EXCEPT !.state = EnemySTATE.CHASE]
    ELSE IF e.attackCooldown <= 0
    THEN [e EXCEPT !.attackCooldown = TypeStats(e.type).attackRate,
                   !.lunge = LungeTime]
    ELSE e

\* Enemy.canSeePlayer; los tells whether the ray to the camera is free.
canSeePlayer(e, camera, los) ==
    /\ ~Beyond(e, camera, 2 * TypeStats(e.type).detectionRange)
    /\ los

\* Enemy.update of an enemy that is not Dead, up to its player detection:
\* the cooldown and the state machine.
EnemyAct(e, delta, camera, off, coll) ==
    LET e1 == IF e.attackCooldown > 0
              THEN [e EXCEPT !.attackCooldown = @ - delta] ELSE e
    IN CASE e1.state = EnemySTATE.IDLE   -> updateIdle(e1, delta, off)
         [] e1.state = EnemySTATE.PATROL -> updatePatrol(e1, delta, coll)
         [] e1.state = EnemySTATE.CHASE  -> updateChase(e1, delta, camera, coll)
         [] e1.state = EnemySTATE.ATTACK -> updateAttack(e1, camera)

\* Whether this Enemy.update calls attack() (the test of updateAttack).
Attacks(e, delta, camera) ==
    /\ e.state = EnemySTATE.ATTACK
    /\ ~Beyond(e, camera, 3 * AttackRange)
    /\ (IF e.attackCooldown > 0 THEN e.attackCooldown - delta
                                ELSE e.attackCooldown) <= 0

\* The vocalization played whenever the player is detected, whatever the
\* state the enemy was in.
CuesWhenSeen(e, delta, camera, los, off, coll) ==
    /\ e.state # EnemySTATE.DEAD
    /\ LET e2 == EnemyAct(e, delta, camera, off, coll)
       IN /\ e2.state # EnemySTATE.DEAD /\ e2.state # EnemySTATE.ATTACK
          /\ canSeePlayer(e2, camera, los)

\* Whether this Enemy.update plays the attack vocalization
\* (audioManager.playEnemyAttack in the player detection).
Cues(e, delta, camera, los, off, coll) ==
    /\ e.state # EnemySTATE.DEAD
    /\ LET e2 == EnemyAct(e, delta, camera, off, coll)
       IN /\ e2.state # EnemySTATE.DEAD /\ e2.state # EnemySTATE.ATTACK
          /\ canSeePlayer(e2, camera, los)
          /\ e2.state = EnemySTATE.IDLE \/ e2.state = EnemySTATE.PATROL

\* Enemy.update that gives up the chase as soon as the player is out of sight.
EnemyUpdateOutOfSight(e, delta, camera, los, off, coll) ==
    IF e.state = EnemySTATE.DEAD THEN e
    ELSE
    LET e2 == EnemyAct(e, delta, camera, off, coll)
    IN IF e2.state # EnemySTATE.DEAD /\ e2.state # EnemySTATE.ATTACK
       THEN IF canSeePlayer(e2, camera, los)
            THEN IF ~Beyond(e2, camera, 2 * AttackRange)
                 THEN [e2 EXCEPT !.state = EnemySTATE.ATTACK]
                 ELSE [e2 EXCEPT !.state = EnemySTATE.CHASE]
            ELSE IF e2.state = EnemySTATE.CHASE
                 THEN pickNewPatrolTarget([e2 EXCEPT !.state = EnemySTATE.PATROL], off)
                 ELSE e2
       ELSE e2

\* Enemy.update
EnemyUpdate(e, delta, camera, los, off, coll) ==
    IF e.state = EnemySTATE.DEAD THEN e
    ELSE
    LET e2 == EnemyAct(e, delta, camera, off, coll)
    IN IF e2.state # EnemySTATE.DEAD /\ e2.state # EnemySTATE.ATTACK
       THEN IF canSeePlayer(e2, camera, los)
            THEN IF ~Beyond(e2, camera, 2 * AttackRange)
                 THEN [e2 EXCEPT !.state = EnemySTATE.ATTACK]
                 ELSE [e2 EXCEPT !.state = EnemySTATE.CHASE]
            ELSE IF /\ e2.state = EnemySTATE.CHASE
                    /\ Beyond(e2, camera, 2 * LoseInterestRange)
                 THEN pickNewPatrolTarget([e2 EXCEPT !.state = EnemySTATE.PATROL], off)
                 ELSE e2
       ELSE e2

----------------------------------------------------------------------------
(* Player.                                                                  *)

\* The weapons array of the constructor: index 0 the Pistol, 1 the Assault
\* Rifle; model tells whether the GLTF model has been loaded; times in ms.
Weapons ==
    [w \in 0..1 |->
        IF w = 0
        THEN [name |-> "Pistol", model |-> FALSE, fireRate |-> 300,
              ammo |-> 12, maxAmmo |-> 12, reloadTime |-> 1500]
        ELSE [name |-> "Assault Rifle", model |-> FALSE, fireRate |-> 120,
              ammo |-> 30, maxAmmo |-> 30, reloadTime |-> 2500]]

\* new Player(game); isReloading and reloadTimer are not set by the
\* constructor and read as false until reloadWeapon sets them. velocityY is
\* in cm/s, feet the height of the feet above the floor in cm;
\* currentVehicle is 0 for null and vehicleSpeed in 1/1000.
NewPlayer ==
    [health |-> FullHealth, ammo |-> StartAmmo, maxAmmo |-> StartAmmo,
     shootCooldown |-> 0, shootRate |-> StartShootRate,
     isReloading |-> FALSE, reloadTimer |-> 0,
     weapons |-> Weapons, currentWeapon |-> 0,
     jumpCount |-> 0, velocityY |-> 0, feet |-> 0,
     money |-> 0, armor |-> 0,
     moveForward |-> FALSE, moveBackward |-> FALSE,
     isDriving |-> FALSE, currentVehicle |-> 0, vehicleSpeed |-> 0]

\* The success callback of loader.load in Player.loadWeapons for weapon index.
weaponLoaded(pl, index) ==
    LET pl1 == [pl EXCEPT !.weapons[index].model = TRUE]
    IN IF index = pl.currentWeapon
       THEN [pl1 EXCEPT !.ammo = pl.weapons[index].ammo,
                        !.maxAmmo = pl.weapons[index].maxAmmo,
                        !.shootRate = pl.weapons[index].fireRate]
       ELSE pl1

\* switchWeapon that does not store the ammo of the weapon it leaves.
switchWeaponNoStore(pl, index) ==
    IF index < 0 \/ index >= 2 THEN pl
    ELSE IF index = pl.currentWeapon THEN pl
    ELSE [pl EXCEPT !.currentWeapon = index,
                    !.ammo = pl.weapons[index].ammo,
                    !.maxAmmo = pl.weapons[index].maxAmmo,
                    !.shootRate = pl.weapons[index].fireRate]

\* Player.switchWeapon
switchWeapon(pl, index) ==
    IF index < 0 \/ index >= 2 THEN pl
    ELSE IF index = pl.currentWeapon THEN pl
    ELSE [pl EXCEPT !.weapons[pl.currentWeapon].ammo = pl.ammo,
                    !.currentWeapon = index,
                    !.ammo = pl.weapons[index].ammo,
                    !.maxAmmo = pl.weapons[index].maxAmmo,
                    !.shootRate = pl.weapons[index].fireRate]

\* The Space key without the test of jumpCount.
jumpUnlimited(pl) ==
    [pl EXCEPT !.velocityY = IF pl.jumpCount = 0 THEN JumpForce
                             ELSE (JumpForce * 8) \div 10,
               !.jumpCount = @ + 1]

\* Player.onKeyDown, case 'Space'
jump(pl) ==
    IF pl.jumpCount < MaxJumps
    THEN [pl EXCEPT !.velocityY = IF pl.jumpCount = 0 THEN JumpForce
                                  ELSE (JumpForce * 8) \div 10,
                    !.jumpCount = @ + 1]
    ELSE pl

\* Player.reloadWeapon
reloadWeapon(pl) ==
    IF pl.isReloading THEN pl
    ELSE IF pl.ammo = pl.maxAmmo THEN pl
    ELSE [pl EXCEPT !.isReloading = TRUE,
                    !.reloadTimer = pl.weapons[pl.currentWeapon].reloadTime]

\* Player.reload, which InputManager.handleKeyAction calls
reload(pl) == [pl EXCEPT !.ammo = pl.maxAmmo]

\* Player.finishReload
finishReload(pl) == [pl EXCEPT !.isReloading = FALSE, !.ammo = pl.maxAmmo]

\* Player.updateReloadAnimation
updateReloadAnimation(pl, delta) ==
    IF ~pl.isReloading THEN pl
    ELSE LET pl1 == [pl EXCEPT !.reloadTimer = @ - delta]
         IN IF pl1.reloadTimer <= 0 THEN finishReload(pl1) ELSE pl1

\* What a call of shoot comes to when reloading does not block it.
shootOutcomeNoReloadTest(pl) ==
    IF pl.shootCooldown > 0 THEN "cooldown"
    ELSE IF pl.ammo <= 0 THEN "empty"
    ELSE "fired"

\* What a call of Player.shoot comes to: it returns at once while the
\* cooldown runs or a reload is under way, plays the empty-gun click
\* (audioManager.playEmptyGun) without ammo, and fires otherwise.
shootOutcome(pl) ==
    IF pl.shootCooldown > 0 THEN "cooldown"
    ELSE IF pl.isReloading THEN "reloading"
    ELSE IF pl.ammo <= 0 THEN "empty"
    ELSE "fired"

\* The player's part of Player.shoot when it fires.
fire(pl) == [pl EXCEPT !.shootCooldown = pl.shootRate, !.ammo = @ - 1]

\* Player.update outside a vehicle (the pointer is locked while the game
\* runs): the shoot cooldown, the reload timer of a weapon whose model is
\* loaded, gravity and the contact with the floor (getGroundHeight() = 0).
PlayerUpdate(pl, delta) ==
    LET pl1 == IF pl.shootCooldown > 0
               THEN [pl EXCEPT !.shootCooldown = @ - delta] ELSE pl
        pl2 == IF pl1.weapons[pl1.currentWeapon].model /\ pl1.isReloading
               THEN updateReloadAnimation(pl1, delta) ELSE pl1
        vy == pl2.velocityY - (Gravity * delta) \div 1000
        y == pl2.feet + (vy * delta) \div 1000
    IN IF y <= 0
       THEN [pl2 EXCEPT !.velocityY = 0, !.feet = 0, !.jumpCount = 0]
       ELSE [pl2 EXCEPT !.velocityY = vy, !.feet = y]

\* Player.enterVehicle
enterVehicle(pl, vehicle) ==
    [pl EXCEPT !.isDriving = TRUE, !.currentVehicle = vehicle,
               !.vehicleSpeed = 0, !.velocityY = 0]

\* exitVehicle that leaves the vehicle's reference in place.
exitVehicleKeepsVehicle(pl) ==
    IF pl.currentVehicle = 0 THEN pl
    ELSE [pl EXCEPT !.feet = ExitLift, !.isDriving = FALSE,
                    !.vehicleSpeed = 0, !.velocityY = 0]

\* Player.exitVehicle: the player is put beside the car, half a unit above
\* standing height.
exitVehicle(pl) ==
    IF pl.currentVehicle = 0 THEN pl
    ELSE [pl EXCEPT !.feet = ExitLift, !.isDriving = FALSE,
                    !.currentVehicle = 0, !.vehicleSpeed = 0, !.velocityY = 0]

\* A speed times num / den, as the floating point product rounded towards 0.
Scaled(speed, num, den) == Sgn(speed) * ((Abs(speed) * num) \div den)

\* The throttle of updateVehiclePhysics without the cap on the speed.
throttleUncapped(pl, delta) ==
    IF pl.moveForward THEN pl.vehicleSpeed + VehicleAcceleration * delta
    ELSE IF pl.moveBackward THEN pl.vehicleSpeed - VehicleAcceleration * delta
    ELSE IF pl.vehicleSpeed > 0
    THEN Max(0, pl.vehicleSpeed - VehicleFriction * delta)
    ELSE IF pl.vehicleSpeed < 0
    THEN Min(0, pl.vehicleSpeed + VehicleFriction * delta)
    ELSE pl.vehicleSpeed

\* updateVehiclePhysics, input and cap: the speed the vehicle is moved with.
throttle(pl, delta) ==
    LET speed == IF pl.moveForward
                 THEN pl.vehicleSpeed + VehicleAcceleration * delta
                 ELSE IF pl.moveBackward
                 THEN pl.vehicleSpeed - VehicleAcceleration * delta
                 ELSE IF pl.vehicleSpeed > 0
                 THEN Max(0, pl.vehicleSpeed - VehicleFriction * delta)
                 ELSE IF pl.vehicleSpeed < 0
                 THEN Min(0, pl.vehicleSpeed + VehicleFriction * delta)
                 ELSE pl.vehicleSpeed
    IN Max(-(VehicleMaxSpeed \div 2), Min(VehicleMaxSpeed, speed))

\* The bounce off a static obstacle: the speed reversed and damped, 0 below
\* 1 unit per second.
bounce(speed) ==
    LET back == Scaled(-speed, 3, 10)
    IN IF Abs(back) < BounceStop THEN 0 ELSE back

\* updateVehiclePhysics, environment collision: the obstacles whose boxes
\* the vehicle's box intersects, in the order of world.collidables, from
\* the k-th on; car is the speed and what translateZ has moved the vehicle
\* by in this tick (speed * delta, in 1/1000 of a unit times ms).
RECURSIVE Obstacles(_, _, _, _)
Obstacles(car, hits, k, delta) ==
    IF k > Len(hits) THEN car
    ELSE IF hits[k] = "moveable"
    THEN Obstacles([car EXCEPT !.speed = Scaled(@, 98, 100)], hits, k + 1, delta)
    ELSE Obstacles([speed |-> bounce(car.speed),
                    moved |-> car.moved - car.speed * delta],
                   hits, k + 1, delta)

\* updateVehiclePhysics up to the enemy collision: the speed and the
\* translation of the tick.
Motion(pl, delta, hits) ==
    LET speed == throttle(pl, delta)
        car == [speed |-> speed, moved |-> speed * delta]
    IN IF Abs(speed) > VehicleCreep THEN Obstacles(car, hits, 1, delta) ELSE car

\* takeDamage without its Math.max.
PlayerTakeDamageUnclamped(pl, amount) == [pl EXCEPT !.health = @ - amount]

\* Player.takeDamage
PlayerTakeDamage(pl, amount) == [pl EXCEPT !.health = Max(0, @ - amount)]

\* collectLoot whose potion adds its 25 without the cap.
collectLootNoCap(pl, type) ==
    IF type = "coin"
    THEN [pl EXCEPT !.money = @ + CoinMoney]
    ELSE IF type = "potion"
    THEN [pl EXCEPT !.health = @ + PotionHealth]
    ELSE pl

\* collectLoot whose hat always gives one point of armor.
collectLootFlatHat(pl, type) ==
    IF type = "coin"
    THEN [pl EXCEPT !.money = @ + CoinMoney]
    ELSE IF type = "cowboyhat"
    THEN [pl EXCEPT !.armor = @ + 1000]
    ELSE IF type = "potion"
    THEN [pl EXCEPT !.health = Min(FullHealth, @ + PotionHealth)]
    ELSE pl

\* Player.collectLoot; the armor in thousandths, the gain of a hat
\* 100 / (100 + armor) rounded down to one of them.
collectLoot(pl, type) ==
    IF type = "coin"
    THEN [pl EXCEPT !.money = @ + CoinMoney]
    ELSE IF type = "cowboyhat"
    THEN [pl EXCEPT !.armor = @ + 100000000 \div (100000 + pl.armor)]
    ELSE IF type = "potion"
    THEN [pl EXCEPT !.health = Min(FullHealth, @ + PotionHealth)]
    ELSE pl

----------------------------------------------------------------------------
(* EnemyManager.  The operators take and return the state m of the manager  *)
(* and the player, a record of the variables below, so that a handler is    *)
(* the composition of the calls it makes.                                   *)

Mgr == [enemies |-> enemies, killCount |-> killCount,
        currentWave |-> currentWave, waveTotalEnemies |-> waveTotalEnemies,
        waveEnemiesSpawned |-> waveEnemiesSpawned, waveKilled |-> waveKilled,
        waveInProgress |-> waveInProgress,
        maxSimultaneousEnemies |-> maxSimultaneousEnemies,
        spawnMultiplier |-> spawnMultiplier, waveTimers |-> waveTimers,
        player |-> player, drops |-> drops, history |-> history]

SetMgr(m) ==
    /\ enemies' = m.enemies
    /\ killCount' = m.killCount
    /\ currentWave' = m.currentWave
    /\ waveTotalEnemies' = m.waveTotalEnemies
    /\ waveEnemiesSpawned' = m.waveEnemiesSpawned
    /\ waveKilled' = m.waveKilled
    /\ waveInProgress' = m.waveInProgress
    /\ maxSimultaneousEnemies' = m.maxSimultaneousEnemies
    /\ spawnMultiplier' = m.spawnMultiplier
    /\ waveTimers' = m.waveTimers
    /\ player' = m.player
    /\ drops' = m.drops
    /\ history' = m.history

\* enemies.filter(e => e.state !== Enemy.STATE.DEAD).length
ActiveCount(es) == Cardinality({i \in 1..Len(es) : es[i].state # EnemySTATE.DEAD})

\* isValidSpawnPosition without its test of the enemy's state.
isValidSpawnPositionAnyState(position, es, coll) ==
    /\ \A i \in 1..Len(es) : ~(DistSq(es[i].mesh, position) < (3 * 4) * (3 * 4))
    /\ \A o \in coll :
           o.name # "ground" =>
               ~(/\ position.x >= o.minX - 4 /\ position.x <= o.maxX + 4
                 /\ position.z >= o.minZ - 4 /\ position.z <= o.maxZ + 4)

\* EnemyManager.isValidSpawnPosition
isValidSpawnPosition(position, es, coll) ==
    /\ \A i \in 1..Len(es) :
           es[i].state # EnemySTATE.DEAD => ~(DistSq(es[i].mesh, position) < (3 * 4) * (3 * 4))
    /\ \A o \in coll :
           o.name # "ground" =>
               ~(/\ position.x >= o.minX - 4 /\ position.x <= o.maxX + 4
                 /\ position.z >= o.minZ - 4 /\ position.z <= o.maxZ + 4)

\* The loop of spawnEnemy: samples[a] is the position drawn at attempt a,
\* position the one drawn last (<<>> is null).
RECURSIVE SpawnSearch(_, _, _, _, _)
SpawnSearch(samples, attempts, position, es, coll) ==
    IF attempts < MaxAttempts
    THEN IF isValidSpawnPosition(samples[attempts], es, coll)
         THEN [position |-> <<samples[attempts]>>, attempts |-> attempts]
         ELSE SpawnSearch(samples, attempts + 1, <<samples[attempts]>>, es, coll)
    ELSE [position |-> position, attempts |-> attempts]

\* EnemyManager.spawnEnemy
spawnEnemy(m, in, coll) ==
    LET r == SpawnSearch(in.samples, 0, <<>>, m.enemies, coll)
    IN IF r.position # <<>>
       THEN [m EXCEPT
               !.enemies = Append(@, NewEnemy(r.position[1], in.type, in.off)),
               !.waveEnemiesSpawned = @ + 1,
               !.history.dieCalls = Append(@, 0),
               !.history.killNotices = Append(@, 0),
               !.history.cues = Append(@, 0),
               !.history.sinceAttack = Append(@, -1),
               !.history.lastGap = Append(@, -1),
               !.history.spawns = Append(@,
                   [valid |-> isValidSpawnPosition(r.position[1], m.enemies, coll),
                    attempts |-> r.attempts,
                    open |-> /\ ActiveCount(m.enemies) = 0
                             /\ \A o \in coll : o.name = "ground",
                    inProgress |-> m.waveInProgress,
                    spawned |-> m.waveEnemiesSpawned,
                    total |-> m.waveTotalEnemies,
                    active |-> ActiveCount(m.enemies),
                    cap |-> m.maxSimultaneousEnemies])]
       ELSE m

\* checkSpawns without its test of the simultaneous cap.
checkSpawnsNoCap(m, in, coll) ==
    IF ~m.waveInProgress THEN m
    ELSE IF m.waveEnemiesSpawned < m.waveTotalEnemies
         THEN spawnEnemy(m, in, coll)
         ELSE m

\* EnemyManager.checkSpawns
checkSpawns(m, in, coll) ==
    IF ~m.waveInProgress THEN m
    ELSE IF /\ m.waveEnemiesSpawned < m.waveTotalEnemies
            /\ ActiveCount(m.enemies) < m.maxSimultaneousEnemies
         THEN spawnEnemy(m, in, coll)
         ELSE m

\* Math.floor in the place of Math.ceil.
WaveTotalFloor(wave, multiplier) ==
    LET baseEnemies == 5 + (wave - 1) * 3
    IN (baseEnemies * multiplier) \div 2

\* Math.ceil(baseEnemies * multiplier), the multiplier in halves.
WaveTotal(wave, multiplier) ==
    LET baseEnemies == 5 + (wave - 1) * 3
    IN (baseEnemies * multiplier + 1) \div 2

\* startWave without its reset of waveKilled.
startWaveNoReset(m, in, coll) ==
    LET multiplier == IF m.spawnMultiplier # 0 THEN m.spawnMultiplier
                      ELSE DefaultMultiplier
        m1 == [m EXCEPT
                 !.waveInProgress = TRUE,
                 !.waveEnemiesSpawned = 0,
                 !.waveTotalEnemies = WaveTotal(m.currentWave, multiplier),
                 !.history.sinceStart = 0,
                 !.history.starts = @ + 1,
                 !.history.lastStart = [wave |-> m.currentWave,
                                        level |-> m.history.level]]
    IN checkSpawns(m1, in, coll)

\* EnemyManager.startWave
startWave(m, in, coll) ==
    LET multiplier == IF m.spawnMultiplier # 0 THEN m.spawnMultiplier
                      ELSE DefaultMultiplier
        m1 == [m EXCEPT
                 !.waveInProgress = TRUE,
                 !.waveEnemiesSpawned = 0,
                 !.waveKilled = 0,
                 !.waveTotalEnemies = WaveTotal(m.currentWave, multiplier),
                 !.history.sinceStart = 0,
                 !.history.starts = @ + 1,
                 !.history.lastStart = [wave |-> m.currentWave,
                                        level |-> m.history.level]]
    IN checkSpawns(m1, in, coll)

\* EnemyManager.completeWave
completeWave(m) ==
    [m EXCEPT !.waveInProgress = FALSE,
              !.waveTimers = Append(@, WaveDelay),
              !.history.completions = @ + 1]

\* onEnemyKilled counting a kill twice.
onEnemyKilledTwice(m, i) ==
    LET m1 == [m EXCEPT !.killCount = @ + 1,
                        !.waveKilled = @ + 2,
                        !.history.killNotices[i] = @ + 1,
                        !.history.sinceStart = @ + 1]
    IN IF m1.waveKilled >= m1.waveTotalEnemies THEN completeWave(m1) ELSE m1

\* onEnemyKilled completing the wave one kill late.
onEnemyKilledLate(m, i) ==
    LET m1 == [m EXCEPT !.killCount = @ + 1,
                        !.waveKilled = @ + 1,
                        !.history.killNotices[i] = @ + 1,
                        !.history.sinceStart = @ + 1]
    IN IF m1.waveKilled > m1.waveTotalEnemies THEN completeWave(m1) ELSE m1

\* EnemyManager.onEnemyKilled
onEnemyKilled(m, i) ==
    LET m1 == [m EXCEPT !.killCount = @ + 1,
                        !.waveKilled = @ + 1,
                        !.history.killNotices[i] = @ + 1,
                        !.history.sinceStart = @ + 1]
    IN IF m1.waveKilled >= m1.waveTotalEnemies THEN completeWave(m1) ELSE m1

\* The loot roll with the hat's branch where its comment puts it, from 0.1
\* to 0.2.
lootRollWithHats(rand) ==
    IF rand < 10 THEN "potion"
    ELSE IF rand < 20 THEN "cowboyhat"
    ELSE IF rand < 80 THEN "coin"
    ELSE "none"

\* The loot roll of Enemy.die for the draw rand, in hundredths: what
\* spawnLoot is called with, "none" when it is not called.
lootRoll(rand) ==
    IF rand < 10 THEN "potion"
    ELSE IF rand < 10 THEN "cowboyhat"
    ELSE IF rand < 80 THEN "coin"
    ELSE "none"

\* Enemy.die: the state, the first animate() call (progress 0, so the next
\* one is requested), the notification of the manager and the loot roll.
\* The Math.random() draw of the roll is read when the camera first comes
\* to the place (LootUpdate): until then drops holds the place of the death.
die(m, i) ==
    onEnemyKilled(
        [m EXCEPT !.enemies[i].state = EnemySTATE.DEAD,
                  !.enemies[i].deathElapsed = 0,
                  !.drops = Append(@, m.enemies[i].mesh),
                  !.history.dieCalls[i] = @ + 1], i)

\* takeDamage dying below 0 only.
takeDamageBelow(m, i, amount) ==
    IF m.enemies[i].state = EnemySTATE.DEAD
    THEN [m EXCEPT !.history.deadHits = TRUE]
    ELSE LET m1 == [m EXCEPT !.enemies[i].health = @ - amount]
         IN IF m1.enemies[i].health < 0 THEN die(m1, i) ELSE m1

\* takeDamage without its test of the Dead state.
takeDamageNoGuard(m, i, amount) ==
    LET m1 == [m EXCEPT !.enemies[i].health = @ - amount,
                        !.history.deadHits =
                            @ \/ m.enemies[i].state = EnemySTATE.DEAD]
    IN IF m1.enemies[i].health <= 0 THEN die(m1, i) ELSE m1

\* Enemy.takeDamage
takeDamage(m, i, amount) ==
    IF m.enemies[i].state = EnemySTATE.DEAD
    THEN [m EXCEPT !.history.deadHits = TRUE]
    ELSE LET m1 == [m EXCEPT !.enemies[i].health = @ - amount]
         IN IF m1.enemies[i].health <= 0 THEN die(m1, i) ELSE m1

\* setDifficulty reading the table of caps one entry too far.
setDifficultyShifted(m, level) ==
    LET caps == <<5, 6, 8, 10, 12, 15>>
    IN [m EXCEPT
          !.maxSimultaneousEnemies =
              IF level \in 0..5 THEN caps[level + 1] ELSE DefaultCap,
          !.spawnMultiplier = 1 + level,
          !.history.level = level]

\* EnemyManager.setDifficulty
setDifficulty(m, level) ==
    LET caps == <<5, 6, 8, 10, 12, 15>>
    IN [m EXCEPT
          !.maxSimultaneousEnemies =
              IF level - 1 \in 0..5 THEN caps[level] ELSE DefaultCap,
          !.spawnMultiplier = 1 + level,
          !.history.level = level]

\* The enemy part of Player.updateVehiclePhysics: enemies.forEach from
\* enemy i on, with the speed (in 1/1000) as damped so far.
RECURSIVE VehicleImpacts(_, _, _, _)
VehicleImpacts(m, i, speed, veh) ==
    IF i > Len(m.enemies) THEN m
    ELSE LET e == m.enemies[i]
         IN IF \/ e.state = "dead"
               \/ ~e.inScene
               \/ ~(DistSq(veh.position, e.mesh) < VehicleReach * VehicleReach)
               \/ ~veh.touch
            THEN VehicleImpacts(m, i + 1, speed, veh)
            ELSE LET impactForce == Abs(speed)
                     damage == (impactForce * 4) \div 1000
                 IN Only({VehicleImpacts(hit, i + 1,
                                         Sgn(speed) * ((impactForce * 8) \div 10),
                                         veh) :
                             hit \in {takeDamage(m, i, damage)}})

\* The speed the enemy part of updateVehiclePhysics leaves: damped by 0.8
\* for every enemy struck (takeDamage changes no other enemy's state, mesh
\* or place in the scene).
RECURSIVE DampedSpeed(_, _, _, _)
DampedSpeed(es, i, speed, veh) ==
    IF i > Len(es) THEN speed
    ELSE IF \/ es[i].state = "dead"
            \/ ~es[i].inScene
            \/ ~(DistSq(veh.position, es[i].mesh) < VehicleReach * VehicleReach)
            \/ ~veh.touch
    THEN DampedSpeed(es, i + 1, speed, veh)
    ELSE DampedSpeed(es, i + 1, Scaled(speed, 8, 10), veh)

\* The obstacles the vehicle's box meets in a tick, where the tick says.
Hits(veh) == IF "hits" \in DOMAIN veh THEN veh.hits ELSE <<>>

\* The requestAnimationFrame callbacks of die(): the animations that were
\* running before this frame advance by the elapsed time, and dispose()
\* removes the mesh from the scene when progress reaches 1.
DeathAnimations(m, before, delta) ==
    [m EXCEPT !.enemies =
        [i \in 1..Len(m.enemies) |->
            IF i <= Len(before) /\ before[i].deathElapsed >= 0 /\ before[i].inScene
            THEN LET elapsed == Min(before[i].deathElapsed + delta, DeathDuration)
                 IN [m.enemies[i] EXCEPT !.deathElapsed = elapsed,
                                          !.inScene = elapsed < DeathDuration]
            ELSE m.enemies[i]]]

\* Time passing for the pending setTimeout callbacks.
Elapse(timers, delta) == [k \in 1..Len(timers) |-> Max(0, timers[k] - delta)]

----------------------------------------------------------------------------
(* Inputs: what the random draws, the player and the asset loader supply.   *)
(* A scope names the sets the inputs of one specification are drawn from    *)
(* and how many of the player's and the loader's events it explores.        *)

At(x) == [x |-> x, z |-> SpawnZ]

\* Sequences of draws: p at the attempts before k, q from attempt k on.
SampleRuns(ps, ks) ==
    {[a \in 0..(MaxAttempts - 1) |-> IF a < k THEN p ELSE q] :
        p \in ps, q \in ps, k \in ks}

\* The camera away from every enemy, hidden; at the spawn point x = 15, in
\* sight; the same two the other way round. rand is the Math.random() draw
\* of the loot rolls of the deaths found at the camera, in hundredths.
Far == [player |-> At(400), los |-> FALSE, rand |-> 90]
Near == [player |-> At(60), los |-> TRUE, rand |-> 90]
FarSeen == [player |-> At(400), los |-> TRUE, rand |-> 90]
NearHidden == [player |-> At(60), los |-> FALSE, rand |-> 90]

\* The camera four units from the spawn point, in sight; at the spawn
\* point where the deaths found there have left a potion, or a coin.
Mid == [player |-> At(76), los |-> TRUE, rand |-> 90]
NearPotion == [player |-> At(60), los |-> TRUE, rand |-> 5]
NearCoin == [player |-> At(60), los |-> TRUE, rand |-> 50]

\* The camera at the spawn point, hidden, where the deaths found there
\* drew rand.
NearRoll(rand) == [player |-> At(60), los |-> FALSE, rand |-> rand]

\* The draws on either side of the thresholds of the loot roll.
LootRands == {0, 9, 10, 19, 79, 80}

\* The camera 2.5 units from the spawn point, in sight: 3.02 units from the
\* foot of an enemy that stands there.
Edge == [player |-> At(70), los |-> TRUE, rand |-> 90]

\* The camera four units from the spawn point, hidden.
MidHidden == [player |-> At(76), los |-> FALSE, rand |-> 90]

\* The camera standing 25 units from the spawn point, in sight.
Sight25 == [player |-> At(160), los |-> TRUE, rand |-> 90]

NoVehicle == [speed |-> 0, position |-> At(0), touch |-> FALSE]

\* A vehicle at x = 15 (x = 16) whose box meets the enemies in reach, at
\* full speed and just above the damage threshold.
FastVehicle == [speed |-> 25000, position |-> At(60), touch |-> TRUE]
SlowVehicle == [speed |-> 5100, position |-> At(64), touch |-> TRUE]
FastVehicle18 == [speed |-> 25000, position |-> At(72), touch |-> TRUE]

\* What surrounds the vehicle the player drives in a tick: the vehicle's
\* place, whether its box meets those of the enemies in reach, and the
\* obstacles its box meets after the tick's translation.
OpenRoad == [speed |-> 0, position |-> At(400), touch |-> FALSE, hits |-> <<>>]
Crowd == [speed |-> 0, position |-> At(60), touch |-> TRUE, hits |-> <<>>]
Wall == [speed |-> 0, position |-> At(400), touch |-> FALSE,
         hits |-> <<"static">>]
Corner == [speed |-> 0, position |-> At(400), touch |-> FALSE,
           hits |-> <<"static", "static">>]
Crate == [speed |-> 0, position |-> At(400), touch |-> FALSE,
          hits |-> <<"moveable">>]

\* Collision boxes of loaded models (World.loadModel).
WorldBoxes == {[name |-> "obstacle_child", minX |-> 78, maxX |-> 90,
                minZ |-> -62, maxZ |-> -58]}

\* What one simulation tick is given: the camera and the vehicle.
On(percept, veh) == [percept |-> percept, veh |-> veh]

\* The waves: hidden player, kills by the vehicle, the slider, any pauses.
WaveScope ==
    [deltas |-> {500}, offs |-> {8}, types |-> {"ghost"},
     ticks |-> {On(Far, NoVehicle), On(Far, FastVehicle)},
     sampleRuns |-> SampleRuns({At(60)}, {1}),
     levels |-> {1, 6},
     maxEnemies |-> MaxEnemies, maxFrames |-> 0,
     maxShots |-> 0, maxImpacts |-> MaxImpacts,
     maxLevelSets |-> MaxLevelSets, maxPauses |-> 0,
     maxLoads |-> 0,
     aim |-> {}, keys |-> {}, maxKeys |-> 0, maxSwitches |-> 0]

\* The enemy's life: every perception, both vehicles, shots; a few frames.
EnemyScope ==
    [deltas |-> {500}, offs |-> {8}, types |-> {"ghost", "demon"},
     ticks |-> {On(Far, NoVehicle), On(Near, NoVehicle), On(FarSeen, NoVehicle),
                On(NearHidden, NoVehicle), On(Far, FastVehicle),
                On(Near, SlowVehicle)},
     sampleRuns |-> SampleRuns({At(60)}, {1}),
     levels |-> {1},
     maxEnemies |-> MaxEnemies, maxFrames |-> MaxFramesE,
     maxShots |-> MaxShotsE, maxImpacts |-> MaxFramesE,
     maxLevelSets |-> 0, maxPauses |-> 0, maxLoads |-> 0,
     aim |-> 1..MaxEnemies, keys |-> {}, maxKeys |-> 0, maxSwitches |-> 0]

\* The spawn search: draws that are rejected at first, late or always, and
\* a loaded obstacle.
SpawnScope ==
    [deltas |-> {500}, offs |-> {8}, types |-> {"ghost"},
     ticks |-> {On(Far, NoVehicle), On(Far, FastVehicle)},
     sampleRuns |-> SampleRuns({At(60), At(72), At(84)}, {1, MaxAttempts - 1}),
     levels |-> {1},
     maxEnemies |-> MaxEnemies, maxFrames |-> MaxFramesS,
     maxShots |-> 0, maxImpacts |-> MaxFramesS,
     maxLevelSets |-> 0, maxPauses |-> 0, maxLoads |-> MaxLoads,
     aim |-> {}, keys |-> {}, maxKeys |-> 0, maxSwitches |-> 0]

\* The slider: every level, under one course of play (the vehicle runs
\* over whatever has spawned) that leads into wave 2.
DifficultyScope ==
    [deltas |-> {500}, offs |-> {8}, types |-> {"ghost"},
     ticks |-> {On(Far, FastVehicle)},
     sampleRuns |-> SampleRuns({At(60)}, {1}),
     levels |-> 1..6,
     maxEnemies |-> MaxEnemiesD, maxFrames |-> 0,
     maxShots |-> 0, maxImpacts |-> MaxImpactsD,
     maxLevelSets |-> MaxLevelSetsD, maxPauses |-> 0, maxLoads |-> 0,
     aim |-> {}, keys |-> {}, maxKeys |-> 0, maxSwitches |-> 0]

\* The fight: the camera near, at mid range and away (driving), the attacks of the
\* Demons over enough frames to take all of the player's health, kills by the
\* vehicle and the potions and coins they leave, found at once or later.
AttackScope ==
    [deltas |-> {500}, offs |-> {8}, types |-> {"demon"},
     ticks |-> {On(Near, NoVehicle), On(Mid, NoVehicle), On(Far, FastVehicle),
                On(NearPotion, FastVehicle), On(NearCoin, FastVehicle)},
     sampleRuns |-> SampleRuns({At(60)}, {1}),
     levels |-> {1},
     maxEnemies |-> MaxEnemiesA, maxFrames |-> MaxFramesA,
     maxShots |-> 0, maxImpacts |-> MaxFramesA,
     maxLevelSets |-> 0, maxPauses |-> 0, maxLoads |-> 0,
     aim |-> {}, keys |-> {}, maxKeys |-> 0, maxSwitches |-> 0]

\* The Robot scenario: every enemy of wave 1 is a Robot spawned 25 units
\* from a camera that never moves and is never hidden; the patrol targets
\* drawn are 2 units along the line to the camera; any number of frames,
\* one or two seconds apart.
RobotScope ==
    [deltas |-> {1000, 2000}, offs |-> {8}, types |-> {"robot"},
     ticks |-> {On(Sight25, NoVehicle)},
     sampleRuns |-> SampleRuns({At(60)}, {1}),
     levels |-> {1},
     maxEnemies |-> WaveTotal(1, DefaultMultiplier), maxFrames |-> 0,
     maxShots |-> 0, maxImpacts |-> 0,
     maxLevelSets |-> 0, maxPauses |-> 0, maxLoads |-> 0,
     aim |-> {}, keys |-> {}, maxKeys |-> 0, maxSwitches |-> 0]

\* The weapons: the player on foot away from the Robots, frames a second
\* apart, shots at the first enemy, reloads, switches with every index, and
\* the weapon models loading at any time or never.
WeaponScope ==
    [deltas |-> {1000}, offs |-> {8}, types |-> {"robot"},
     ticks |-> {On(Far, NoVehicle)},
     sampleRuns |-> SampleRuns({At(60)}, {1}),
     levels |-> {1},
     maxEnemies |-> WaveTotal(1, DefaultMultiplier), maxFrames |-> MaxFramesW,
     maxShots |-> MaxShotsW, maxImpacts |-> 0,
     maxLevelSets |-> 0, maxPauses |-> 0, maxLoads |-> 0,
     aim |-> {1}, keys |-> {"KeyR"}, maxKeys |-> MaxKeysW,
     maxSwitches |-> MaxSwitchesW]

\* Emptying a weapon: more fire attempts than the Pistol holds rounds, half
\* a second apart or faster, aimed at the first Robot or at nothing; the weapon
\* models load at any time or never.
FireScope ==
    [deltas |-> {500}, offs |-> {8}, types |-> {"robot"},
     ticks |-> {On(Far, NoVehicle)},
     sampleRuns |-> SampleRuns({At(60)}, {1}),
     levels |-> {1},
     maxEnemies |-> WaveTotal(1, DefaultMultiplier), maxFrames |-> MaxFramesF,
     maxShots |-> MaxShotsF, maxImpacts |-> 0,
     maxLevelSets |-> 0, maxPauses |-> 0, maxLoads |-> 0,
     aim |-> {0, 1}, keys |-> {}, maxKeys |-> 0, maxSwitches |-> 0]

\* The jumps: frames a tenth of a second apart, so that a jump lasts
\* several of them, and the Space key at any time.
JumpScope ==
    [deltas |-> {100}, offs |-> {8}, types |-> {"ghost"},
     ticks |-> {On(Far, NoVehicle)},
     sampleRuns |-> SampleRuns({At(60)}, {1}),
     levels |-> {1},
     maxEnemies |-> WaveTotal(1, DefaultMultiplier), maxFrames |-> MaxFramesJ,
     maxShots |-> 0, maxImpacts |-> 0,
     maxLevelSets |-> 0, maxPauses |-> 0, maxLoads |-> 0,
     aim |-> {}, keys |-> {"Space"}, maxKeys |-> MaxKeysJ,
     maxSwitches |-> 0]

\* The loot: Ghosts spawned at x = 15 or x = 18 and run over there by the
\* vehicle, the camera away from them or with the vehicle at x = 15, where
\* it finds what has dropped, at once or later.
LootScope ==
    [deltas |-> {500}, offs |-> {8}, types |-> {"ghost"},
     ticks |-> {On(Far, FastVehicle), On(Far, FastVehicle18)}
               \cup {On(NearRoll(rand), FastVehicle) : rand \in LootRands},
     sampleRuns |-> SampleRuns({At(60), At(72)}, {1}),
     levels |-> {1},
     maxEnemies |-> WaveTotal(1, DefaultMultiplier), maxFrames |-> MaxFramesL,
     maxShots |-> 0, maxImpacts |-> MaxFramesL,
     maxLevelSets |-> 0, maxPauses |-> 0, maxLoads |-> 0,
     aim |-> {}, keys |-> {}, maxKeys |-> 0, maxSwitches |-> 0]

\* The dead: Ghosts spawned at x = 15, the camera away, the vehicle there in
\* some frames and away in others; any number of frames.
DeathScope ==
    [deltas |-> {500}, offs |-> {8}, types |-> {"ghost"},
     ticks |-> {On(Far, NoVehicle), On(Far, FastVehicle)},
     sampleRuns |-> SampleRuns({At(60)}, {1}),
     levels |-> {1},
     maxEnemies |-> WaveTotal(1, DefaultMultiplier), maxFrames |-> 0,
     maxShots |-> 0, maxImpacts |-> MaxImpacts,
     maxLevelSets |-> 0, maxPauses |-> 0, maxLoads |-> 0,
     aim |-> {}, keys |-> {}, maxKeys |-> 0, maxSwitches |-> 0]

\* The patrol: Demons at x = 15 that never perceive the player, patrol
\* targets drawn near the spawn point and at the edge of the patrol radius.
PatrolScope ==
    [deltas |-> {500}, offs |-> PatrolOffs({134, 999}), types |-> {"demon"},
     ticks |-> {On(Far, NoVehicle)},
     sampleRuns |-> SampleRuns({At(60)}, {1}),
     levels |-> {1},
     maxEnemies |-> WaveTotal(1, DefaultMultiplier), maxFrames |-> MaxFramesP,
     maxShots |-> 0, maxImpacts |-> 0,
     maxLevelSets |-> 0, maxPauses |-> 0, maxLoads |-> 0,
     aim |-> {}, keys |-> {}, maxKeys |-> 0, maxSwitches |-> 0]

\* The pursuit: Demons at x = 15, the camera at the spawn point, four units
\* from it in sight or hidden, or far away and hidden.
ChaseScope ==
    [deltas |-> {500}, offs |-> {8}, types |-> {"demon"},
     ticks |-> {On(Near, NoVehicle), On(Mid, NoVehicle),
                On(MidHidden, NoVehicle), On(Far, NoVehicle)},
     sampleRuns |-> SampleRuns({At(60)}, {1}),
     levels |-> {1},
     maxEnemies |-> WaveTotal(1, DefaultMultiplier), maxFrames |-> MaxFramesC,
     maxShots |-> 0, maxImpacts |-> 0,
     maxLevelSets |-> 0, maxPauses |-> 0, maxLoads |-> 0,
     aim |-> {}, keys |-> {}, maxKeys |-> 0, maxSwitches |-> 0]

\* The ray of a shot: Ghosts at x = 15, some run over by the vehicle, shots
\* along every ray through two of the first three enemies and the world.
RayScope ==
    [deltas |-> {500}, offs |-> {8}, types |-> {"ghost"},
     ticks |-> {On(Far, NoVehicle), On(Far, FastVehicle)},
     sampleRuns |-> SampleRuns({At(60)}, {1}),
     levels |-> {1},
     maxEnemies |-> WaveTotal(1, DefaultMultiplier), maxFrames |-> MaxFramesR,
     maxShots |-> MaxShotsR, maxImpacts |-> MaxFramesR,
     maxLevelSets |-> 0, maxPauses |-> 0, maxLoads |-> 0,
     aim |-> 0..3, keys |-> {}, maxKeys |-> 0, maxSwitches |-> 0,
     maxRay |-> 2]

\* The lunge: Demons at x = 15, frames a twentieth of a second apart, the
\* camera at the spawn point or 2.5 units from it.
LungeScope ==
    [deltas |-> {50}, offs |-> {8}, types |-> {"demon"},
     ticks |-> {On(Near, NoVehicle), On(Edge, NoVehicle)},
     sampleRuns |-> SampleRuns({At(60)}, {1}),
     levels |-> {1},
     maxEnemies |-> WaveTotal(1, DefaultMultiplier), maxFrames |-> MaxFramesG,
     maxShots |-> 0, maxImpacts |-> 0,
     maxLevelSets |-> 0, maxPauses |-> 0, maxLoads |-> 0,
     aim |-> {}, keys |-> {}, maxKeys |-> 0, maxSwitches |-> 0]

SpawnInputs(sc) ==
    [samples : sc.sampleRuns, type : sc.types, off : sc.offs]

----------------------------------------------------------------------------
(* The state after construction (new Game(), new EnemyManager(game)).       *)

Init ==
    /\ isRunning = FALSE
    /\ initialized = FALSE
    /\ collidables = {}
    /\ enemies = <<>>
    /\ killCount = 0
    /\ currentWave = 1
    /\ waveTotalEnemies = 5
    /\ waveEnemiesSpawned = 0
    /\ waveKilled = 0
    /\ waveInProgress = FALSE
    /\ maxSimultaneousEnemies = DefaultCap
    /\ spawnMultiplier = 0
    /\ waveTimers = <<>>
    /\ player = NewPlayer
    /\ drops = <<>>
    /\ history = [dieCalls |-> <<>>, killNotices |-> <<>>, spawns |-> <<>>,
                  cues |-> <<>>, sinceAttack |-> <<>>, lastGap |-> <<>>,
                  potions |-> 0, coins |-> 0, hats |-> 0, blanks |-> 0,
                  lastRand |-> -1, lungeFelt |-> FALSE, found |-> 0, camera |-> At(0),
                  lastGain |-> -1,
                  drive |-> [into |-> 0, out |-> 0, moved |-> 0, coasting |-> FALSE,
                            statics |-> 0],
                  preLoot |-> NewPlayer,
                  lastShot |-> "none", firedSince |-> 0,
                  left |-> [w \in 0..1 |-> -1], lastIndex |-> 0,
                  impulses |-> 0, keys |-> 0, switches |-> 0,
                  sinceStart |-> 0, starts |-> 0, completions |-> 0,
                  lastStart |-> [wave |-> 0, level |-> 0], level |-> 0,
                  deadHits |-> FALSE,
                  frames |-> 0, shots |-> 0, impacts |-> 0, levelSets |-> 0,
                  pauses |-> 0, loads |-> 0]

\* Events are counted only where a scope limits them (a limit of 0 is none);
\* of the frames, those that run the simulation tick.
Count(m, what, max) == IF max > 0 THEN [m EXCEPT !.history[what] = @ + 1] ELSE m

Within(count, max) == max > 0 => count < max

\* Game.init: world.init() creates the ground, enemyManager.init() starts
\* wave 1, animate() requests the first frame.
GameInit(sc) ==
    /\ ~initialized
    /\ \E in \in SpawnInputs(sc) :
          \E m \in {startWave(Mgr, in, {Ground})} : SetMgr(m)
    /\ initialized' = TRUE
    /\ collidables' = {Ground}
    /\ UNCHANGED isRunning

\* Game.start (pointer lock acquired)
Start ==
    /\ initialized /\ ~isRunning
    /\ isRunning' = TRUE
    /\ UNCHANGED <<initialized, collidables, enemies, killCount, currentWave,
                   waveTotalEnemies, waveEnemiesSpawned, waveKilled,
                   waveInProgress, maxSimultaneousEnemies, spawnMultiplier,
                   waveTimers, player, drops, history>>

\* Game.pause (pointer lock released)
Pause(sc) ==
    /\ initialized /\ isRunning
    /\ Within(history.pauses, sc.maxPauses)
    /\ isRunning' = FALSE
    /\ history' = Count(Mgr, "pauses", sc.maxPauses).history
    /\ UNCHANGED <<initialized, collidables, enemies, killCount, currentWave,
                   waveTotalEnemies, waveEnemiesSpawned, waveKilled,
                   waveInProgress, maxSimultaneousEnemies, spawnMultiplier,
                   waveTimers, player, drops>>

\* The calls of Enemy.attack in one EnemyManager.update, from enemy i on:
\* each is a Player.takeDamage of the enemy's damage.
RECURSIVE EnemyAttacks(_, _, _, _)
EnemyAttacks(pl, es, attacks, i) ==
    IF i > Len(es) THEN pl
    ELSE EnemyAttacks(IF attacks[i]
                      THEN PlayerTakeDamage(pl, TypeStats(es[i].type).damage)
                      ELSE pl,
                      es, attacks, i + 1)

\* Player.collectLoot for each of n drops of one type.
RECURSIVE Collect(_, _, _)
Collect(pl, type, n) ==
    IF n = 0 THEN pl ELSE Collect(collectLoot(pl, type), type, n - 1)

\* LootManager.update: every drop less than pickupRadius (1.5) from the
\* camera is collected. A drop floats 0.3 to 0.7 above the ground and the
\* camera is 1.7 above it, so a drop within half a unit on the ground is
\* in reach whatever the phase of its bobbing; the scopes place the camera
\* either there or beyond 1.5 units. rand is the draw of the deaths found
\* here; where the roll called for no loot there is nothing to collect.
LootUpdate(m, camera, rand) ==
    LET Away(d) == DistSq(d, camera) > 4
        found == Len(m.drops) - Len(SelectSeq(m.drops, Away))
        loot == lootRoll(rand)
    IN [m EXCEPT !.drops = SelectSeq(@, Away),
                 !.player = Collect(@, loot, found),
                 !.history.potions = IF loot = "potion" THEN @ + found ELSE @,
                 !.history.coins = IF loot = "coin" THEN @ + found ELSE @,
                 !.history.hats = IF loot = "cowboyhat" THEN @ + found ELSE @,
                 !.history.blanks = IF loot = "none" THEN @ + found ELSE @,
                 !.history.lastRand = IF found > 0 THEN rand ELSE @,
                 !.history.camera = IF found > 0 THEN camera ELSE @,
                 !.history.preLoot = IF found > 0 THEN m.player ELSE @,
                 !.history.found = found]

\* The timeouts of Enemy.attack that fall due within delta: the mesh is put
\* back.
LungeBacks(m, delta) ==
    [m EXCEPT !.enemies =
        [i \in 1..Len(m.enemies) |->
            [m.enemies[i] EXCEPT !.lunge = Max(0, @ - delta)]]]

\* What the simulation keeps of an enemy, the pending timeout left out.
Simulated(e) == [e EXCEPT !.lunge = 0]

\* Whether this Enemy.update comes out otherwise than it would with the
\* mesh put back: in what it leaves of the enemy or in its call of attack().
LungeFelt(e, delta, camera, los, off, coll) ==
    /\ e.lunge > 0
    /\ \/ Attacks(e, delta, camera) # Attacks(Simulated(e), delta, camera)
       \/ Simulated(EnemyUpdate(e, delta, camera, los, off, coll))
             # Simulated(EnemyUpdate(Simulated(e), delta, camera, los, off, coll))

\* The enemies.forEach(enemy => enemy.update(delta)) of EnemyManager.update,
\* with what it makes the enemies do to the player and what is heard.
EnemiesUpdate(m, delta, percept, off, coll) ==
    LET n == Len(m.enemies)
        since == m.history.sinceAttack
    IN Only({[m EXCEPT
                !.enemies =
                    [i \in 1..n |->
                        EnemyUpdate(m.enemies[i], delta, percept.player,
                                    percept.los, off, coll)],
                !.player = EnemyAttacks(@, m.enemies, attacks, 1),
                !.history.cues = [i \in 1..n |-> IF cue[i] THEN @[i] + 1 ELSE @[i]],
                !.history.lungeFelt = @ \/ \E i \in 1..n : felt[i],
                !.history.sinceAttack =
                    [i \in 1..n |-> IF attacks[i] THEN 0
                                    ELSE IF @[i] = -1 THEN -1
                                    ELSE Min(@[i] + delta, GapWindow)],
                !.history.lastGap =
                    [i \in 1..n |-> IF attacks[i] /\ since[i] # -1
                                    THEN Min(since[i] + delta, GapWindow)
                                    ELSE @[i]]] :
             attacks \in {[i \in 1..n |->
                             Attacks(m.enemies[i], delta, percept.player)]},
             cue \in {[i \in 1..n |->
                         Cues(m.enemies[i], delta, percept.player, percept.los,
                              off, coll)]},
             felt \in {[i \in 1..n |->
                          LungeFelt(m.enemies[i], delta, percept.player,
                                    percept.los, off, coll)]}})

\* Player.updateVehiclePhysics: input, cap, translation, the obstacles, and
\* above the minimum speed the enemies; history.drive keeps the speed the
\* vehicle was moved with, the speed after the obstacles, the translation
\* the tick leaves, whether neither throttle key was held and the number of
\* static obstacles met.
updateVehiclePhysics(m, delta, veh) ==
    LET into == throttle(m.player, delta)
        car == Motion(m.player, delta, Hits(veh))
        strikes == Abs(car.speed) > VehicleMinSpeed
        statics == {k \in 1..Len(Hits(veh)) : Hits(veh)[k] = "static"}
    IN Only({[hit EXCEPT
                 !.player.vehicleSpeed =
                     IF strikes THEN DampedSpeed(m.enemies, 1, car.speed, veh)
                     ELSE car.speed,
                 !.history.drive =
                     [into |-> into, out |-> car.speed, moved |-> car.moved,
                      coasting |-> ~m.player.moveForward /\ ~m.player.moveBackward,
                      statics |-> IF Abs(into) > VehicleCreep
                                  THEN Cardinality(statics) ELSE 0]] :
               hit \in {IF strikes
                        THEN VehicleImpacts(Count(m, "impacts", 1), 1,
                                            car.speed, veh)
                        ELSE m}})

\* Player.update of a player who is not driving, with what it ends: a
\* reload that finishes, a jump that lands.
OnFoot(m, delta) ==
    Only({[m EXCEPT !.player = pl,
                    !.history.firedSince =
                        IF m.player.isReloading /\ ~pl.isReloading THEN 0 ELSE @,
                    !.history.impulses = IF pl.feet = 0 THEN 0 ELSE @] :
             pl \in {PlayerUpdate(m.player, delta)}})

\* Game.animate when isRunning: player.update (on foot, or driving with the
\* vehicle's impacts), then
\* enemyManager.update up to its call of checkSpawns, then
\* lootManager.update (checkSpawns touches neither the drops nor the player).
Tick(m, delta, percept, off, veh, coll) ==
    Only({LootUpdate(m2, percept.player, percept.rand) :
            m2 \in {EnemiesUpdate(m1, delta, percept, off, coll) :
                       m1 \in {IF m.player.isDriving /\ m.player.currentVehicle # 0
                               THEN updateVehiclePhysics(m, delta, veh)
                               ELSE IF veh.speed = 0
                               THEN OnFoot(m, delta)
                               ELSE IF Abs(veh.speed) > VehicleMinSpeed
                               THEN VehicleImpacts(Count(m, "impacts", 1), 1,
                                                   veh.speed, veh)
                               ELSE m}}})

\* The draws a call of checkSpawns can make in state m.
DrawsFor(m, sc) ==
    IF /\ m.waveInProgress
       /\ m.waveEnemiesSpawned < m.waveTotalEnemies
       /\ ActiveCount(m.enemies) < m.maxSimultaneousEnemies
    THEN SpawnInputs(sc)
    ELSE {CHOOSE in \in SpawnInputs(sc) : TRUE}

\* One animation frame, delta ms after the previous one: the pending timers
\* come delta closer, Game.animate runs (the simulation tick when
\* isRunning), then the death animations.
Frame(sc) ==
    /\ initialized
    /\ Within(history.frames, sc.maxFrames)
    /\ \E delta \in sc.deltas :
       \E back \in {LungeBacks(Mgr, delta)} :
       \E t \in IF isRunning
                THEN {Tick(back, delta, on.percept, off, on.veh, collidables) :
                         on \in sc.ticks, off \in sc.offs}
                ELSE {back} :
       \E in \in DrawsFor(t, sc) :
       \E c \in {IF isRunning THEN checkSpawns(t, in, collidables) ELSE t} :
       \E m \in {DeathAnimations(
                    [c  EXCEPT !.waveTimers = Elapse(@, delta),
                               !.history.frames =
                                   IF sc.maxFrames > 0 /\ isRunning
                                   THEN @ + 1 ELSE @],
                    enemies, delta)} :
          /\ Len(m.enemies) <= sc.maxEnemies
          /\ m.history.impacts <= sc.maxImpacts
          /\ SetMgr(m)
    /\ UNCHANGED <<isRunning, initialized, collidables>>

\* getAllHitboxes that leaves the Dead enemies in.
getAllHitboxesWithDead(es) == 1..Len(es)

\* EnemyManager.getAllHitboxes: the enemies whose meshes can be hit.
getAllHitboxes(es) == {i \in 1..Len(es) : es[i].state # EnemySTATE.DEAD}

\* raycaster.intersectObjects(hitTargets, true)[0] and getEnemyFromMesh: ray
\* lists what the ray from the camera crosses, nearest first, an enemy by
\* its index and a collidable of the world as 0; the result is the enemy hit,
\* 0 if the nearest hit is a collidable or there is none.
RECURSIVE nearestHit(_, _)
nearestHit(ray, es) ==
    IF ray = <<>> THEN 0
    ELSE IF Head(ray) = 0 \/ Head(ray) \in getAllHitboxes(es) THEN Head(ray)
    ELSE nearestHit(Tail(ray), es)

\* The rays of a scope: up to maxRay (one, if the scope does not say) of the
\* scope's aims in a row, none twice.
Rays(sc, es) ==
    LET aims == sc.aim \cap 0..Len(es)
        len == IF "maxRay" \in DOMAIN sc THEN sc.maxRay ELSE 1
    IN {<<a>> : a \in aims}
       \cup (IF len >= 2
             THEN {<<pair[1], pair[2]>> :
                      pair \in {q \in aims \X aims : q[1] # q[2]}}
             ELSE {})

\* Player.shoot: when it fires, the ray's nearest hit is a hit box of enemy
\* target (getAllHitboxes offers those of the enemies that are not Dead) or,
\* with target 0, nothing that belongs to an enemy.
shoot(m, target) ==
    LET out == shootOutcome(m.player)
        m1 == [m EXCEPT !.history.lastShot = out]
        m2 == [m1 EXCEPT !.player = fire(@), !.history.firedSince = @ + 1]
    IN IF out # "fired" THEN m1
       ELSE IF target = 0 THEN m2
       ELSE takeDamage(m2, target, ShotDamage)

\* Player.shoot with its raycast along ray.
shootAlong(m, ray) == shoot(m, nearestHit(ray, m.enemies))

\* Player.onMouseDown with the left button, outside the editor
Shoot(sc) ==
    /\ initialized /\ isRunning
    /\ Within(history.shots, sc.maxShots)
    /\ \E ray \in Rays(sc, enemies) :
          \E m \in {shootAlong(Count(Mgr, "shots", sc.maxShots), ray)} : SetMgr(m)
    /\ UNCHANGED <<isRunning, initialized, collidables>>

\* The vehicles a scope puts within 3 units of the player: 0 is none.
Nearby(sc) == IF "nearby" \in DOMAIN sc THEN sc.nearby ELSE {0}

\* Player.tryEnterVehicle: vehicle is the closest vehicle model within 3
\* units of the camera, 0 if there is none.
tryEnterVehicle(pl, vehicle) ==
    IF vehicle = 0 THEN pl ELSE enterVehicle(pl, vehicle)

\* A keyup event (Player.onKeyUp).
KeyUp(sc) ==
    /\ initialized
    /\ \E code \in sc.keys \cap {"KeyW", "KeyS"} :
          /\ player' = IF code = "KeyW"
                       THEN [player EXCEPT !.moveForward = FALSE]
                       ELSE [player EXCEPT !.moveBackward = FALSE]
          /\ player' # player
    /\ UNCHANGED <<isRunning, initialized, collidables, enemies, killCount,
                   currentWave, waveTotalEnemies, waveEnemiesSpawned, waveKilled,
                   waveInProgress, maxSimultaneousEnemies, spawnMultiplier,
                   waveTimers, drops, history>>

\* A keydown event. Player.onKeyDown handles it first (its listener is
\* added in player.init(), before inputManager.init()): Space jumps and KeyR
\* is reloadWeapon; then InputManager.handleKeyAction, whose KeyR is
\* Player.reload while the game runs.
KeyDown(sc) ==
    /\ initialized
    /\ Within(history.keys, sc.maxKeys)
    /\ \E code \in sc.keys, vehicle \in Nearby(sc) :
          LET m0 == Count(Mgr, "keys", sc.maxKeys)
              pl == CASE code = "Space" -> jump(player)
                      [] code = "KeyW" -> [player EXCEPT !.moveForward = TRUE]
                      [] code = "KeyS" -> [player EXCEPT !.moveBackward = TRUE]
                      [] code = "KeyE" ->
                             IF player.isDriving THEN exitVehicle(player)
                             ELSE tryEnterVehicle(player, vehicle)
                      [] OTHER -> IF isRunning THEN reload(reloadWeapon(player))
                                  ELSE reloadWeapon(player)
          IN \E m \in {[m0 EXCEPT
                           !.player = pl,
                           !.history.impulses =
                               IF code = "Space" /\ pl # player THEN @ + 1 ELSE @,
                           !.history.firedSince =
                               IF code = "KeyR" /\ isRunning THEN 0 ELSE @]} :
                SetMgr(m)
    /\ UNCHANGED <<isRunning, initialized, collidables>>

\* Player.switchWeapon(index): the keys Digit1 and Digit2 call it with 0 and
\* 1; the other indices are the method called directly.
SwitchWeapon(sc) ==
    /\ initialized
    /\ Within(history.switches, sc.maxSwitches)
    /\ \E index \in -1..2 :
          LET m0 == Count(Mgr, "switches", sc.maxSwitches)
              pl == switchWeapon(player, index)
          IN \E m \in {[m0 EXCEPT
                           !.player = pl,
                           !.history.lastIndex = index,
                           !.history.left =
                               IF pl.currentWeapon # player.currentWeapon
                               THEN [@ EXCEPT ![player.currentWeapon] = player.ammo]
                               ELSE @,
                           !.history.firedSince =
                               IF pl.currentWeapon # player.currentWeapon
                               THEN 0 ELSE @]} :
                SetMgr(m)
    /\ UNCHANGED <<isRunning, initialized, collidables>>

\* Player.collectLoot('cowboyhat'), the method called directly: the loot
\* roll never asks for a hat.
CollectHat ==
    /\ initialized
    /\ history.hats < MaxHats
    /\ \E pl \in {collectLoot(player, "cowboyhat")} :
       \E m \in {[Mgr EXCEPT !.player = pl,
                              !.history.hats = @ + 1,
                              !.history.lastGain = pl.armor - player.armor]} :
          SetMgr(m)
    /\ UNCHANGED <<isRunning, initialized, collidables>>

\* The success callback of loader.load for the model of weapon index
\* (Player.loadWeapons, called by player.init()); a load that fails only
\* logs, and the callback never runs.
WeaponLoaded ==
    /\ initialized
    /\ \E index \in 0..1 :
          /\ ~player.weapons[index].model
          /\ player' = weaponLoaded(player, index)
    /\ UNCHANGED <<isRunning, initialized, collidables, enemies, killCount,
                   currentWave, waveTotalEnemies, waveEnemiesSpawned, waveKilled,
                   waveInProgress, maxSimultaneousEnemies, spawnMultiplier,
                   waveTimers, drops, history>>

\* Enemy.takeDamage called on an enemy that is already Dead: the method called
\* directly (Player.shoot aims at getAllHitboxes, which leaves Dead enemies out).
HitDead(sc) ==
    /\ initialized /\ isRunning
    /\ Within(history.shots, sc.maxShots)
    /\ \E i \in 1..Len(enemies) :
          /\ enemies[i].state = EnemySTATE.DEAD
          /\ \E m \in {takeDamage(Count(Mgr, "shots", sc.maxShots), i, ShotDamage)} : SetMgr(m)
    /\ UNCHANGED <<isRunning, initialized, collidables>>

\* The difficulty slider's input handler (Game.setupUI).
SetDifficulty(sc) ==
    /\ initialized
    /\ Within(history.levelSets, sc.maxLevelSets)
    /\ \E level \in sc.levels :
          \E m \in {setDifficulty(Count(Mgr, "levelSets", sc.maxLevelSets), level)} : SetMgr(m)
    /\ UNCHANGED <<isRunning, initialized, collidables>>

\* The setTimeout callback of completeWave, once its 5000 ms have passed.
WaveTimer(sc) ==
    /\ initialized
    /\ currentWave < MaxWave
    /\ \E k \in 1..Len(waveTimers), in \in SpawnInputs(sc) :
          /\ waveTimers[k] = 0
          /\ LET m0 == [Mgr EXCEPT
                          !.waveTimers = SubSeq(@, 1, k - 1) \o SubSeq(@, k + 1, Len(@)),
                          !.currentWave = @ + 1]
             IN \E m \in {startWave(m0, in, collidables)} :
                   /\ Len(m.enemies) <= sc.maxEnemies
                   /\ SetMgr(m)
    /\ UNCHANGED <<isRunning, initialized, collidables>>

\* The GLTFLoader callback of World.loadModel for a collidable model.
LoadModel(sc) ==
    /\ initialized
    /\ history.loads < sc.maxLoads
    /\ \E box \in WorldBoxes : collidables' = collidables \cup {box}
    /\ history' = [history EXCEPT !.loads = @ + 1]
    /\ UNCHANGED <<isRunning, initialized, enemies, killCount, currentWave,
                   waveTotalEnemies, waveEnemiesSpawned, waveKilled,
                   waveInProgress, maxSimultaneousEnemies, spawnMultiplier,
                   waveTimers, player, drops>>

Next ==
    \/ GameInit(WaveScope)
    \/ Start
    \/ Pause(WaveScope)
    \/ Frame(WaveScope)
    \/ SetDifficulty(WaveScope)
    \/ WaveTimer(WaveScope)

Spec == Init /\ [][Next]_vars

NextEnemy ==
    \/ GameInit(EnemyScope)
    \/ Start
    \/ Frame(EnemyScope)
    \/ Shoot(EnemyScope)
    \/ HitDead(EnemyScope)

SpecEnemy == Init /\ [][NextEnemy]_vars

NextSpawn ==
    \/ GameInit(SpawnScope)
    \/ Start
    \/ Frame(SpawnScope)
    \/ LoadModel(SpawnScope)

SpecSpawn == Init /\ [][NextSpawn]_vars

NextDifficulty ==
    \/ GameInit(DifficultyScope)
    \/ Start
    \/ Frame(DifficultyScope)
    \/ SetDifficulty(DifficultyScope)
    \/ WaveTimer(DifficultyScope)

SpecDifficulty == Init /\ [][NextDifficulty]_vars

NextAttack ==
    \/ GameInit(AttackScope)
    \/ Start
    \/ Frame(AttackScope)

SpecAttack == Init /\ [][NextAttack]_vars

NextRobot ==
    \/ GameInit(RobotScope)
    \/ Start
    \/ Frame(RobotScope)

NextWeapon ==
    \/ GameInit(WeaponScope)
    \/ Start
    \/ Frame(WeaponScope)
    \/ Shoot(WeaponScope)
    \/ KeyDown(WeaponScope)
    \/ SwitchWeapon(WeaponScope)
    \/ WeaponLoaded

SpecWeapon == Init /\ [][NextWeapon]_vars

NextFire ==
    \/ GameInit(FireScope)
    \/ Start
    \/ Frame(FireScope)
    \/ Shoot(FireScope)
    \/ WeaponLoaded

SpecFire == Init /\ [][NextFire]_vars

NextLoot ==
    \/ GameInit(LootScope)
    \/ Start
    \/ Frame(LootScope)
    \/ CollectHat

SpecLoot == Init /\ [][NextLoot]_vars

\* The loot scope with nothing but the game's own calls: drops come from
\* the loot roll of a death and are collected in lootManager.update.
NextDrops ==
    \/ GameInit(LootScope)
    \/ Start
    \/ Frame(LootScope)

SpecDrops == Init /\ [][NextDrops]_vars

NextJump ==
    \/ GameInit(JumpScope)
    \/ Start
    \/ Frame(JumpScope)
    \/ KeyDown(JumpScope)

SpecJump == Init /\ [][NextJump]_vars

\* The browser keeps delivering animation frames (requestAnimationFrame in
\* Game.animate).
SpecRobot == Init /\ [][NextRobot]_vars /\ WF_vars(Frame(RobotScope))

NextPatrol ==
    \/ GameInit(PatrolScope)
    \/ Start
    \/ Frame(PatrolScope)

SpecPatrol == Init /\ [][NextPatrol]_vars

NextRay ==
    \/ GameInit(RayScope)
    \/ Start
    \/ Frame(RayScope)
    \/ Shoot(RayScope)

SpecRay == Init /\ [][NextRay]_vars

NextChase ==
    \/ GameInit(ChaseScope)
    \/ Start
    \/ Frame(ChaseScope)

SpecChase == Init /\ [][NextChase]_vars

NextLunge ==
    \/ GameInit(LungeScope)
    \/ Start
    \/ Frame(LungeScope)

SpecLunge == Init /\ [][NextLunge]_vars

\* Driving: the player enters and leaves a vehicle, holds and releases the
\* throttle keys; open road, obstacles of both kinds, enemies in the way.
DriveScope ==
    [deltas |-> {1000}, offs |-> {8}, types |-> {"ghost"},
     ticks |-> {On(Far, OpenRoad), On(Far, Crowd), On(Far, Wall),
                On(Far, Corner), On(Far, Crate)},
     sampleRuns |-> SampleRuns({At(60)}, {1}),
     levels |-> {1},
     maxEnemies |-> MaxEnemies, maxFrames |-> MaxFramesV,
     maxShots |-> 0, maxImpacts |-> MaxFramesV,
     maxLevelSets |-> 0, maxPauses |-> 0, maxLoads |-> 0,
     aim |-> {}, keys |-> {"KeyE", "KeyW", "KeyS"}, maxKeys |-> 0,
     maxSwitches |-> 0, nearby |-> {0, 1}]

NextDrive ==
    \/ GameInit(DriveScope)
    \/ Start
    \/ Frame(DriveScope)
    \/ KeyDown(DriveScope)
    \/ KeyUp(DriveScope)

SpecDrive == Init /\ [][NextDrive]_vars

\* Boarding: the player jumps, enters and leaves a vehicle on an open road
\* and drives it forward.
BoardScope ==
    [deltas |-> {340}, offs |-> {8}, types |-> {"ghost"},
     ticks |-> {On(Far, OpenRoad)},
     sampleRuns |-> SampleRuns({At(60)}, {1}),
     levels |-> {1},
     maxEnemies |-> MaxEnemies, maxFrames |-> MaxFramesX,
     maxShots |-> 0, maxImpacts |-> MaxFramesX,
     maxLevelSets |-> 0, maxPauses |-> 0, maxLoads |-> 0,
     aim |-> {}, keys |-> {"KeyE", "KeyW", "Space"}, maxKeys |-> 0,
     maxSwitches |-> 0, nearby |-> {0, 1}]

NextBoard ==
    \/ GameInit(BoardScope)
    \/ Start
    \/ Frame(BoardScope)
    \/ KeyDown(BoardScope)
    \/ KeyUp(BoardScope)

SpecBoard == Init /\ [][NextBoard]_vars

\* Ramming: the player drives forward from rest through the enemies at the
\* spawn point, in frames of 340 ms.
RamScope ==
    [deltas |-> {340}, offs |-> {8}, types |-> {"ghost"},
     ticks |-> {On(Far, Crowd)},
     sampleRuns |-> SampleRuns({At(60)}, {1}),
     levels |-> {1},
     maxEnemies |-> MaxEnemies, maxFrames |-> MaxFramesM,
     maxShots |-> 0, maxImpacts |-> MaxFramesM,
     maxLevelSets |-> 0, maxPauses |-> 0, maxLoads |-> 0,
     aim |-> {}, keys |-> {"KeyE", "KeyW"}, maxKeys |-> 0,
     maxSwitches |-> 0, nearby |-> {1}]

NextRam ==
    \/ GameInit(RamScope)
    \/ Start
    \/ Frame(RamScope)
    \/ KeyDown(RamScope)
    \/ KeyUp(RamScope)

SpecRam == Init /\ [][NextRam]_vars

\* Reloading while the frames go on without end: robots on patrol, a
\* hidden player who fires, presses the reload key and may board a vehicle;
\* the weapon models load at any time or never.
ReloadScope ==
    [deltas |-> {1000}, offs |-> {8}, types |-> {"robot"},
     ticks |-> {On(Far, OpenRoad)},
     sampleRuns |-> SampleRuns({At(60)}, {1}),
     levels |-> {1},
     maxEnemies |-> WaveTotal(1, DefaultMultiplier), maxFrames |-> 0,
     maxShots |-> MaxShotsL, maxImpacts |-> 0,
     maxLevelSets |-> 0, maxPauses |-> 0, maxLoads |-> 0,
     aim |-> {0}, keys |-> {"KeyR", "KeyE"}, maxKeys |-> MaxKeysL,
     maxSwitches |-> 0, nearby |-> {1}]

NextReload ==
    \/ GameInit(ReloadScope)
    \/ Start
    \/ Frame(ReloadScope)
    \/ Shoot(ReloadScope)
    \/ KeyDown(ReloadScope)
    \/ WeaponLoaded

\* The browser keeps delivering animation frames.
SpecReload == Init /\ [][NextReload]_vars /\ WF_vars(Frame(ReloadScope))

\* Firing from the driver's seat: the player enters and leaves a vehicle and
\* fires, in frames of 100 ms.
GunnerScope ==
    [deltas |-> {100}, offs |-> {8}, types |-> {"robot"},
     ticks |-> {On(Far, OpenRoad)},
     sampleRuns |-> SampleRuns({At(60)}, {1}),
     levels |-> {1},
     maxEnemies |-> WaveTotal(1, DefaultMultiplier), maxFrames |-> MaxFramesN,
     maxShots |-> MaxShotsN, maxImpacts |-> MaxFramesN,
     maxLevelSets |-> 0, maxPauses |-> 0, maxLoads |-> 0,
     aim |-> {0}, keys |-> {"KeyE"}, maxKeys |-> MaxKeysN,
     maxSwitches |-> 0, nearby |-> {1}]

NextGunner ==
    \/ GameInit(GunnerScope)
    \/ Start
    \/ Frame(GunnerScope)
    \/ Shoot(GunnerScope)
    \/ KeyDown(GunnerScope)

SpecGunner == Init /\ [][NextGunner]_vars

NextDeath ==
    \/ GameInit(DeathScope)
    \/ Start
    \/ Frame(DeathScope)

\* The browser keeps delivering animation frames (requestAnimationFrame in
\* Game.animate).
SpecDeath == Init /\ [][NextDeath]_vars /\ WF_vars(Frame(DeathScope))

----------------------------------------------------------------------------
(* Properties.                                                              *)

Dead(e) == e.state = EnemySTATE.DEAD

Indices == 1..Len(enemies)

\* C1: an enemy's health never increases, it is Dead exactly when a
\* takeDamage has brought its health to 0 or below, and once Dead it stays
\* Dead through every tick, shot and vehicle impact.
C1_HealthAndDeath ==
    /\ [](\A i \in Indices : Dead(enemies[i]) <=> enemies[i].health <= 0)
    /\ [][\A i \in Indices :
             /\ enemies'[i].health <= enemies[i].health
             /\ Dead(enemies[i]) => Dead(enemies'[i])
             /\ enemies'[i].state \in LiveStates \cup {EnemySTATE.DEAD}]_vars

\* An enemy died, was hit again, was disposed of and lived through another
\* tick, while another one is alive and damaged.
C1_Witness ==
    /\ isRunning
    /\ history.deadHits
    /\ history.frames >= 2
    /\ \E i \in Indices : Dead(enemies[i]) /\ ~enemies[i].inScene
    /\ \E i \in Indices :
          ~Dead(enemies[i]) /\ enemies[i].health < TypeStats(enemies[i].type).health

\* C2: a takeDamage on a Dead enemy changes nothing; die runs at most once
\* per enemy and the manager is notified exactly once per enemy that died.
C2_DieOnce ==
    /\ [](/\ \A i \in Indices :
               /\ history.dieCalls[i] = (IF Dead(enemies[i]) THEN 1 ELSE 0)
               /\ history.killNotices[i] = history.dieCalls[i]
          /\ killCount = Cardinality({i \in Indices : Dead(enemies[i])}))
    /\ [][HitDead(EnemyScope) =>
             UNCHANGED <<enemies, killCount, currentWave, waveTotalEnemies,
                         waveEnemiesSpawned, waveKilled, waveInProgress,
                         waveTimers>>]_vars

\* A Dead enemy whose death animation still runs has been hit again, and
\* two enemies have died.
C2_Witness ==
    /\ history.deadHits
    /\ killCount >= 2
    /\ \E i \in Indices : Dead(enemies[i]) /\ enemies[i].inScene

\* C3: waveKilled never exceeds waveTotalEnemies.
C3_KilledWithinTotal == waveKilled <= waveTotalEnemies

\* Every enemy of a wave has been killed, after the difficulty was changed.
C3_Witness ==
    /\ waveKilled = waveTotalEnemies
    /\ waveKilled > 0
    /\ history.level # 0

\* C4: after init the wave is marked complete exactly when waveKilled equals
\* waveTotalEnemies, and waveKilled is the number of onEnemyKilled calls
\* since the last startWave.
C4_CompleteIffAllKilled ==
    initialized =>
        /\ ~waveInProgress <=> waveKilled = waveTotalEnemies
        /\ waveKilled = history.sinceStart

C4_Witness ==
    /\ initialized
    /\ ~waveInProgress
    /\ waveKilled = waveTotalEnemies
    /\ history.sinceStart > 0

C6_SpawnsValidated ==
    \A k \in 1..Len(history.spawns) :
        /\ history.spawns[k].valid
        /\ history.spawns[k].attempts < MaxAttempts

\* Points around the spawn line.
Probes == {[x |-> x, z |-> z] : x \in {56, 60, 68, 71, 72, 76, 77, 82, 91, 95},
                                z \in {SpawnZ, SpawnZ + 6, SpawnZ - 7}}

NearLiveEnemy(p) ==
    \E i \in Indices : ~Dead(enemies[i]) /\ DistSq(enemies[i].mesh, p) < 144

NearDeadEnemy(p) ==
    \E i \in Indices : Dead(enemies[i]) /\ DistSq(enemies[i].mesh, p) < 144

InObstacleMargin(p) ==
    \E o \in collidables :
        /\ o.name # "ground"
        /\ o.minX - 4 <= p.x /\ p.x <= o.maxX + 4
        /\ o.minZ - 4 <= p.z /\ p.z <= o.maxZ + 4

\* C7: the validator rejects a point within 3 units of an enemy that is not
\* Dead and a point inside the box of a collidable other than the ground
\* grown by 1, and accepts every other point, whatever Dead enemies are
\* near; in an open field the first draw is used.
C7_Validator ==
    /\ \A p \in Probes :
          isValidSpawnPosition(p, enemies, collidables)
              <=> ~NearLiveEnemy(p) /\ ~InObstacleMargin(p)
    /\ \A k \in 1..Len(history.spawns) :
          history.spawns[k].open => history.spawns[k].attempts = 0

\* A Dead enemy lies within 3 units of an accepted point, a live one
\* rejects another point, and so does a loaded obstacle.
C7_Witness ==
    /\ \E p \in Probes :
          NearDeadEnemy(p) /\ isValidSpawnPosition(p, enemies, collidables)
    /\ \E p \in Probes : NearLiveEnemy(p) /\ ~InObstacleMargin(p)
    /\ \E p \in Probes : InObstacleMargin(p) /\ ~NearLiveEnemy(p)
    /\ \E k \in 1..Len(history.spawns) :
          history.spawns[k].open /\ k > 1

\* C8: a checkSpawns call creates at most one enemy, and only in a wave in
\* progress with fewer enemies spawned than its total and fewer enemies
\* alive than the cap; so waveEnemiesSpawned never exceeds waveTotalEnemies.
C8_SpawnGuard ==
    /\ [](/\ waveEnemiesSpawned <= waveTotalEnemies
          /\ \A k \in 1..Len(history.spawns) :
                /\ history.spawns[k].inProgress
                /\ history.spawns[k].spawned < history.spawns[k].total
                /\ history.spawns[k].active < history.spawns[k].cap)
    /\ [][Len(enemies') <= Len(enemies) + 1]_vars

\* As many enemies are alive as the cap allows while the wave has more to
\* spawn, and a later state has spawned the whole wave.
C8_Witness ==
    /\ isRunning /\ waveInProgress
    /\ ActiveCount(enemies) = maxSimultaneousEnemies
    /\ waveEnemiesSpawned < waveTotalEnemies
    /\ Len(enemies) > maxSimultaneousEnemies

\* C9: each completion of a wave schedules one advance: currentWave only
\* grows, by 1 and only from a completed wave whose delay has passed, a
\* startWave resets the counters, and at most one advance is pending.
C9_WaveAdvance ==
    /\ [](/\ Len(waveTimers) <= 1
          /\ history.completions = (currentWave - 1) + Len(waveTimers)
          /\ initialized => (Len(waveTimers) = 1 <=> ~waveInProgress))
    /\ [][/\ currentWave' >= currentWave
          /\ currentWave' # currentWave =>
                /\ currentWave' = currentWave + 1
                /\ ~waveInProgress
                /\ waveTimers = <<0>>
                /\ history'.starts = history.starts + 1
          /\ (initialized /\ history'.starts # history.starts) =>
                /\ currentWave' = currentWave + 1
                /\ waveInProgress'
                /\ waveKilled' = 0
                /\ waveEnemiesSpawned' <= 1]_vars

C9_Witness ==
    /\ currentWave = 2
    /\ waveInProgress
    /\ history.completions = 1

\* C10: while the initialized game is not running, currentWave does not
\* change, no enemy is spawned and no dead enemy is disposed of.
C10_PausedFreezes ==
    [][(initialized /\ ~isRunning) =>
          /\ currentWave' = currentWave
          /\ Len(enemies') = Len(enemies)
          /\ \A i \in Indices : enemies'[i].inScene = enemies[i].inScene]_vars

C12_AttackInterval ==
    \A i \in Indices :
        LET rate == TypeStats(enemies[i].type).attackRate
        IN /\ (history.sinceAttack[i] = 0 /\ ~Dead(enemies[i]))
                => enemies[i].attackCooldown * rate = 1000000
           /\ history.lastGap[i] # -1 => history.lastGap[i] * rate >= 1000000

\* The Robot that Game.init spawns 25 units from the camera, once the game runs.
RobotIn(state) ==
    /\ isRunning /\ Len(enemies) >= 1
    /\ enemies[1].type = "robot" /\ enemies[1].state = state

\* C13: a Robot spawned 25 units from a player who stands still in clear
\* sight enters Chase, then Attack, and from then on the player's health
\* goes down by the damage of the Robots that attack (15 each) until it is 0.
C13_RobotScenario ==
    /\ (RobotIn(EnemySTATE.PATROL) ~> RobotIn(EnemySTATE.CHASE))
    /\ (RobotIn(EnemySTATE.CHASE) ~> RobotIn(EnemySTATE.ATTACK))
    /\ (RobotIn(EnemySTATE.ATTACK) ~> player.health = 0)
    /\ [][player'.health # player.health =>
             \/ player'.health = 0
             \/ \E k \in 1..Len(enemies) :
                    player'.health = player.health - k * TypeStats("robot").damage]_vars

Passive(e) == e.state = EnemySTATE.IDLE \/ e.state = EnemySTATE.PATROL

Hostile(e) == e.state = EnemySTATE.CHASE \/ e.state = EnemySTATE.ATTACK

\* C14: in every step each enemy's attack vocalization is played once if the
\* enemy goes from Idle or Patrol to Chase or Attack, and not at all
\* otherwise (staying in Chase or Attack, or moving between them, is silent);
\* a new enemy has played none.
C14_CueOncePerAggro ==
    [][\A i \in 1..Len(enemies') :
          IF i <= Len(enemies)
          THEN history'.cues[i] - history.cues[i] =
                   IF Passive(enemies[i]) /\ Hostile(enemies'[i]) THEN 1 ELSE 0
          ELSE history'.cues[i] = 0]_vars

\* An enemy that was provoked twice, chased and has attacked.
C14_Witness ==
    \E i \in Indices :
        /\ history.cues[i] = 2
        /\ enemies[i].state = EnemySTATE.ATTACK
        /\ history.sinceAttack[i] >= 0

\* C15: whatever enemies attack and whatever potions are picked up, the
\* player's health is at least 0 and at most 100.
C15_HealthRange == player.health \in 0..FullHealth

\* The health is used up although a potion was picked up on the way.
C15_Witness == history.potions > 0 /\ player.health = 0


\* C16: in every reachable state, weapon models loaded or not, the player's
\* ammo is between 0 and the maxAmmo of the weapon that is equipped, and the
\* ammo stored for each weapon is between 0 and that weapon's maxAmmo.
C16_AmmoRange ==
    /\ player.ammo \in 0..player.weapons[player.currentWeapon].maxAmmo
    /\ \A w \in 0..1 : player.weapons[w].ammo \in 0..player.weapons[w].maxAmmo


\* A tick of delta ms brings the feet of the player down to the floor.
Lands(delta) ==
    LET vy == player.velocityY - (Gravity * delta) \div 1000
    IN player.feet + (vy * delta) \div 1000 <= 0

\* C17: jumpCount goes back to 0 only on a tick in which the feet reach the
\* ground, it never exceeds 2, at most 2 jump impulses are applied between
\* two ground contacts, the first of jumpForce and the second of 0.8 times
\* that, and a further press of Space changes nothing of the player.
C17_DoubleJump ==
    [][/\ player'.jumpCount <= MaxJumps
       /\ history'.impulses <= MaxJumps
       /\ player'.jumpCount < player.jumpCount =>
             /\ player'.jumpCount = 0
             /\ isRunning /\ history'.frames = history.frames + 1
             /\ \E delta \in JumpScope.deltas : Lands(delta)
             /\ player'.feet = 0
       /\ history'.keys = history.keys + 1 =>
             IF history.impulses = 0
             THEN player'.velocityY = JumpForce /\ player'.jumpCount = 1
             ELSE IF history.impulses = 1
             THEN 10 * player'.velocityY = 8 * JumpForce /\ player'.jumpCount = 2
             ELSE player' = player]_vars

\* In the air after two impulses, with a press of Space that came after them
\* (no jump lands within four frames).
C17_Witness ==
    /\ history.impulses = 2 /\ player.jumpCount = 2 /\ player.feet > 0
    /\ history.keys > 2 /\ history.frames < 5


\* A fire attempt with the 12-round weapon equipped, after 12 successful
\* shots with it and no reload since.
ThirteenthAttempt ==
    /\ history'.shots = history.shots + 1
    /\ player.weapons[player.currentWeapon].maxAmmo = 12
    /\ history.firedSince >= 12

\* C18: with a weapon of capacity 12 equipped, after 12 successful shots
\* without a reload every further fire attempt leaves the ammo at 0, damages
\* no enemy and emits the empty-gun cue.
C18_EmptyGun ==
    [][ThirteenthAttempt =>
          /\ player.ammo = 0 /\ player'.ammo = 0
          /\ enemies' = enemies /\ killCount' = killCount
          /\ history'.lastShot = "empty"]_vars


\* C19: a switch back to a weapon gives the ammo that weapon had when it was
\* left, whatever was fired with the other one meanwhile; a shot changes the
\* stored ammo of no other weapon; switchWeapon with an index out of range
\* or with the current index changes nothing of the player.
C19_SwitchKeepsAmmo ==
    [][/\ (/\ player'.currentWeapon # player.currentWeapon
           /\ history.left[player'.currentWeapon] # -1) =>
             player'.ammo = history.left[player'.currentWeapon]
       /\ history'.shots = history.shots + 1 =>
             \A w \in 0..1 :
                 w # player.currentWeapon =>
                     player'.weapons[w].ammo = player.weapons[w].ammo
       /\ (/\ history'.switches = history.switches + 1
           /\ history'.lastIndex \in {-1, 2, player.currentWeapon}) =>
             player' = player]_vars

\* Back on the Pistol with the ammo it was left with after a shot, one round
\* of the Assault Rifle fired in between.
C19_Witness ==
    /\ player.currentWeapon = 0
    /\ history.left[0] # -1 /\ player.ammo = history.left[0]
    /\ player.ammo \notin {12, StartAmmo}
    /\ history.left[1] = 29


\* C20: from the start of a reload until its timer has run out (isReloading),
\* a fire attempt takes no ammo, does not restart the shoot cooldown and
\* damages no enemy.
C20_ReloadBlocksFire ==
    [][(history'.shots = history.shots + 1 /\ player.isReloading) =>
          /\ player'.ammo = player.ammo
          /\ player'.shootCooldown = player.shootCooldown
          /\ enemies' = enemies /\ killCount' = killCount]_vars

\* A fire attempt that nothing but the reload under way has stopped: the
\* cooldown had run out and there is ammo.
C20_Witness ==
    /\ player.isReloading /\ player.reloadTimer > 0
    /\ history.lastShot = "reloading"
    /\ player.ammo > 0


\* The number of calls of die() so far.
RECURSIVE Deaths(_)
Deaths(i) == IF i = 0 THEN 0 ELSE history.dieCalls[i] + Deaths(i - 1)

IsPrefix(s, t) == Len(s) <= Len(t) /\ SubSeq(t, 1, Len(s)) = s

\* C22: in the tick in which the camera is within the pickup radius of
\* drops, each of them is removed and gives the player one effect, a coin 10
\* of money and a potion 25 of health up to 100, and nothing else of the
\* player changes; the drops out of reach stay, in that tick and in every
\* other step.
C22_PickupOnce ==
    [][LET found == IF history'.frames = history.frames + 1
                    THEN history'.found ELSE 0
           Stays(d) == found > 0 => DistSq(d, history'.camera) > 4
           potions == history'.potions - history.potions
           coins == history'.coins - history.coins
           blanks == history'.blanks - history.blanks
       IN /\ IsPrefix(SelectSeq(drops, Stays), drops')
          /\ potions + coins + blanks = found
          /\ found > 0 =>
                /\ \A k \in 1..Len(drops') :
                      DistSq(drops'[k], history'.camera) > 4
                /\ player' =
                      [history'.preLoot EXCEPT
                          !.money = @ + 10 * coins,
                          !.health = Min(100, @ + 25 * potions)]
          /\ found = 0 =>
                /\ player'.money = player.money
                /\ player'.health <= player.health]_vars

\* Coins have been found, and just now a potion whose 25 the player, hurt
\* before, has got in full.
C22_Witness ==
    /\ history.coins > 0 /\ player.money = 10 * history.coins
    /\ history.found > 0 /\ history.lastRand < 10
    /\ player.health = history.preLoot.health + 25 * history.found
    /\ player.health < 100


\* C23: hats collected one after another from armor 0 make the armor grow
\* each time, by 100 / (100 + armor), and each gain is smaller than the one
\* before (armor in thousandths, a gain rounded down to one of them).
C23_DiminishingArmor ==
    [][history'.hats = history.hats + 1 =>
          LET gain == player'.armor - player.armor
          IN /\ gain > 0
             /\ gain * (100000 + player.armor) <= 100000000
             /\ (gain + 1) * (100000 + player.armor) > 100000000
             /\ history.lastGain # -1 => gain < history.lastGain]_vars

\* Three hats have been collected, the last with a smaller gain than the
\* first's 1.
C23_Witness ==
    /\ history.hats >= 3
    /\ history.lastGain \in 1..999
    /\ player.armor > 2 * history.lastGain


\* C24: the damage of a player's shot, the notification of the death it
\* causes and the wave's count of kills change only within a simulation
\* tick, after the enemies' update of that tick.
C24_CombatInsideTick ==
    [][(\/ \E i \in Indices : enemies'[i].health < enemies[i].health
        \/ \E i \in Indices : history'.killNotices[i] > history.killNotices[i]
        \/ killCount' > killCount
        \/ waveKilled' > waveKilled) =>
          isRunning /\ history'.frames = history.frames + 1]_vars

\* C25: every enemy that becomes Dead is eventually disposed of and removed
\* from the manager's list, so that the list does not keep dead enemies
\* forever: whenever the list holds a Dead enemy, a later state's list holds
\* none (the enemies of the wave are finitely many).
C25_DeadRemoved ==
    (\E i \in Indices : Dead(enemies[i])) ~> (\A i \in Indices : ~Dead(enemies[i]))

\* C26: the timed effects (the lunge of an attack and its revert 100 ms
\* later, the damage flash, the death animation) never change what the
\* simulation reads: every tick leaves each enemy's position, state and
\* health and the player as it would with no effect pending.
C26_EffectsApart == ~history.lungeFelt

\* The enemy as Enemy.update finds it in a frame delta after the last one.
Due(e, delta) == [e EXCEPT !.lunge = Max(0, @ - delta)]

\* At the player detection of this Enemy.update the player is out of sight
\* and farther than loseInterestRange.
Lost(e, delta, on, off) ==
    LET e2 == EnemyAct(Due(e, delta), delta, on.percept.player, off, collidables)
    IN /\ ~canSeePlayer(e2, on.percept.player, on.percept.los)
       /\ Beyond(e2, on.percept.player, 2 * LoseInterestRange)

\* At the player detection of this Enemy.update the player is out of sight
\* and within loseInterestRange.
Hidden(e, delta, on, off) ==
    LET e2 == EnemyAct(Due(e, delta), delta, on.percept.player, off, collidables)
    IN /\ ~canSeePlayer(e2, on.percept.player, on.percept.los)
       /\ ~Beyond(e2, on.percept.player, 2 * LoseInterestRange)

\* What Enemy.update makes of the enemy in that frame.
Updated(e, delta, on, off) ==
    EnemyUpdate(Due(e, delta), delta, on.percept.player, on.percept.los, off,
                collidables)

\* C27: an enemy in Chase goes to Patrol in a tick only if at the player
\* detection it cannot see the player and is farther than loseInterestRange
\* (30) from it, and then with a patrol target drawn anew; a Chase enemy that
\* cannot see the player within loseInterestRange stays in Chase or Attack.
C27_LoseInterest ==
    /\ [](\A i \in Indices :
          \A delta \in ChaseScope.deltas, on \in ChaseScope.ticks,
             off \in ChaseScope.offs :
             enemies[i].state = EnemySTATE.CHASE =>
                /\ Updated(enemies[i], delta, on, off).state = EnemySTATE.PATROL
                      <=> Lost(enemies[i], delta, on, off)
                /\ Hidden(enemies[i], delta, on, off)
                      => Hostile(Updated(enemies[i], delta, on, off))
                /\ Updated(enemies[i], delta, on, off).state
                      \in {EnemySTATE.CHASE, EnemySTATE.ATTACK, EnemySTATE.PATROL})
    /\ [][\A i \in Indices :
             enemies[i].state = EnemySTATE.CHASE /\ enemies'[i].state = EnemySTATE.PATROL
             => \E delta \in ChaseScope.deltas, on \in ChaseScope.ticks,
                   off \in ChaseScope.offs :
                   /\ Lost(enemies[i], delta, on, off)
                   /\ enemies'[i] = Updated(enemies[i], delta, on, off)
                   /\ enemies'[i].targetPosition
                         = [x |-> enemies[i].position.x + off,
                            z |-> enemies[i].position.z]]_vars

\* An enemy that played its cue has lost interest and patrols again, farther
\* from its spawn point than its patrol target is: the chase took it there.
C27_Witness ==
    \E i \in Indices :
       /\ enemies[i].state = EnemySTATE.PATROL
       /\ history.cues[i] >= 1
       /\ DistSq(enemies[i].mesh, enemies[i].position)
             > DistSq(enemies[i].targetPosition, enemies[i].position)

\* C28: an enemy that begins a tick in Attack ends it in Attack or Chase (or
\* Dead through damage), never in Idle or Patrol.
C28_AttackTick ==
    [][\A i \in Indices :
          enemies[i].state = EnemySTATE.ATTACK =>
             enemies'[i].state \in {EnemySTATE.ATTACK, EnemySTATE.CHASE,
                                    EnemySTATE.DEAD}]_vars

\* The enemy stands within 0.5 of its patrol target.
Arrived(e) == DistSq(e.mesh, e.targetPosition) < 2 * 2

\* C29: while the player is never perceived an enemy is on Patrol or Idle
\* only; in a tick it goes from Patrol to Idle exactly if it has arrived
\* (less than 0.5 from its target), with stateTimer set to patrolWaitTime,
\* and from Idle to Patrol exactly if stateTimer has counted down to 0 or
\* below, with a new target within patrolRadius (15) of its spawn origin.
C29_PatrolIdle ==
    /\ [](\A i \in Indices : Passive(enemies[i]))
    /\ [][history'.frames = history.frames + 1 =>
             \A i \in Indices : \E delta \in PatrolScope.deltas :
                /\ enemies[i].state = EnemySTATE.PATROL =>
                      /\ enemies'[i].state = EnemySTATE.IDLE <=> Arrived(enemies[i])
                      /\ enemies'[i].state = EnemySTATE.IDLE =>
                            /\ enemies'[i].stateTimer = PatrolWaitTime
                            /\ enemies'[i].mesh = enemies[i].mesh
                      /\ enemies'[i].targetPosition = enemies[i].targetPosition
                /\ enemies[i].state = EnemySTATE.IDLE =>
                      /\ enemies'[i].state = EnemySTATE.PATROL
                            <=> enemies[i].stateTimer - delta <= 0
                      /\ enemies'[i].stateTimer = enemies[i].stateTimer - delta
                      /\ enemies'[i].state = EnemySTATE.PATROL =>
                            /\ \E off \in PatrolScope.offs :
                                  enemies'[i].targetPosition
                                     = [x |-> enemies[i].position.x + off,
                                        z |-> enemies[i].position.z]
                            /\ DistSq(enemies'[i].targetPosition, enemies[i].position)
                                  < PatrolRadius * PatrolRadius
                      /\ enemies'[i].state # EnemySTATE.PATROL =>
                            enemies'[i].targetPosition = enemies[i].targetPosition
                /\ enemies'[i].position = enemies[i].position]_vars

\* After six ticks the first enemy stands where it arrived, near its spawn
\* point, has waited there and is on Patrol again, to a target at the edge of
\* the patrol radius, while another enemy waits.
C29_Witness ==
    /\ history.frames >= 6
    /\ enemies[1].state = EnemySTATE.PATROL
    /\ Arrived([enemies[1] EXCEPT !.targetPosition.x = enemies[1].position.x + 8])
    /\ DistSq(enemies[1].targetPosition, enemies[1].position) > 8 * 8
    /\ \E i \in Indices : enemies[i].state = EnemySTATE.IDLE

\* The enemies a shot along ray would change in the current state.
Hurt(ray) == {i \in Indices : shootAlong(Mgr, ray).enemies[i] # enemies[i]}

\* C30: a shot damages at most one enemy, the owner of the nearest hit along
\* the ray: an enemy behind a nearer collidable of the world or a nearer
\* living enemy takes no damage; a Dead enemy is never hit and never
\* intercepts, so that the first living enemy behind Dead ones only is hit.
C30_NearestHit ==
    \A ray \in Rays(RayScope, enemies) :
       /\ Cardinality(Hurt(ray)) <= 1
       /\ \A i \in Hurt(ray) :
             /\ ~Dead(enemies[i])
             /\ shootAlong(Mgr, ray).enemies[i].health = enemies[i].health - ShotDamage
             /\ \E k \in 1..Len(ray) :
                   /\ ray[k] = i
                   /\ \A j \in 1..(k - 1) : ray[j] # 0 /\ Dead(enemies[ray[j]])
       /\ \A k \in 1..Len(ray) :
             (/\ shootOutcome(player) = "fired"
              /\ ray[k] # 0 /\ ~Dead(enemies[ray[k]])
              /\ \A j \in 1..(k - 1) : ray[j] # 0 /\ Dead(enemies[ray[j]]))
             => Hurt(ray) = {ray[k]}

\* The player can fire; of the first three enemies one is Dead, one has been
\* hit by a shot and one is unhurt.
C30_Witness ==
    /\ isRunning
    /\ shootOutcome(player) = "fired"
    /\ Len(enemies) >= 3
    /\ \E i \in 1..3 : Dead(enemies[i])
    /\ \E i \in 1..3 :
          enemies[i].health = TypeStats(enemies[i].type).health - ShotDamage
    /\ \E i \in 1..3 : enemies[i].health = TypeStats(enemies[i].type).health

----------------------------------------------------------------------------
(* Driving.                                                                 *)

\* A step that is a simulation tick of a player who is driving.
DrivingTick ==
    /\ isRunning
    /\ player.isDriving
    /\ history'.frames = history.frames + 1

InRange(speed) == -(VehicleMaxSpeed \div 2) <= speed /\ speed <= VehicleMaxSpeed

\* A driving tick with neither throttle key held.
CoastingTick == DrivingTick /\ ~player.moveForward /\ ~player.moveBackward

\* The speed comes nearer to 0, or stays there.
Slows == IF player.vehicleSpeed = 0 THEN player'.vehicleSpeed = 0
         ELSE Abs(player'.vehicleSpeed) < Abs(player.vehicleSpeed)

\* The speed does not pass to the other side of 0.
KeepsSign == player'.vehicleSpeed * player.vehicleSpeed >= 0

\* C32 as claimed: after every driving tick the speed is within
\* [-12.5, 25], and in a tick without forward or backward input the speed
\* comes nearer to 0 and never changes sign.
C32_CoastsToRest ==
    [][/\ DrivingTick => InRange(player'.vehicleSpeed)
       /\ CoastingTick => Slows /\ KeepsSign]_vars

\* C32, amended: after every driving tick the speed is within [-12.5, 25],
\* pushes, bounces and enemy impacts included; in a tick without forward or
\* backward input the speed comes nearer to 0, and it does not change sign
\* unless the vehicle bounces off a static obstacle in that tick.
C32_CoastsOrBounces ==
    [][/\ DrivingTick => InRange(player'.vehicleSpeed)
       /\ CoastingTick
              => Slows /\ (history'.drive.statics = 0 => KeepsSign)]_vars

\* A coasting vehicle has bounced off a wall and now rolls backwards.
C32_Witness ==
    /\ player.isDriving
    /\ history.drive.coasting
    /\ history.drive.statics = 1
    /\ history.drive.into > 0
    /\ player.vehicleSpeed < 0

\* C33: in a driving tick in which the vehicle's box meets static
\* obstacles, one or several, the tick's translation is reverted, so the
\* vehicle ends the tick where it began it, and the speed after the
\* obstacles is -0.3 times the speed the vehicle was moved with (0 when
\* that is below 1 in magnitude).
C33_BounceReverts ==
    [][DrivingTick /\ history'.drive.statics >= 1
          => /\ history'.drive.moved = 0
             /\ history'.drive.out = bounce(history'.drive.into)]_vars

\* C34: every vehicle impact that damages an enemy happens at a speed above
\* 5 and takes floor(|speed| * 4) of the speed at that impact, so an enemy
\* struck in a driving tick loses at least 20 health, also when several
\* enemies are struck in the same tick.
C34_ImpactAtLeast20 ==
    [][DrivingTick
          => \A i \in 1..Len(enemies) :
                enemies'[i].health < enemies[i].health
                   => enemies[i].health - enemies'[i].health >= 20]_vars

\* C35 as claimed: in every reachable state the enemies that are not Dead
\* are at most maxSimultaneousEnemies, whatever the order of ticks, kills,
\* wave starts and setDifficulty calls, a call that lowers the cap during a
\* wave included.
C35_UnderCap == ActiveCount(enemies) <= maxSimultaneousEnemies

\* C35, amended: the number of enemies that are not Dead never rises above
\* maxSimultaneousEnemies: it is within the cap at the start, and every
\* step that raises it leaves it within the cap of the time; a
\* setDifficulty that lowers the cap below it leaves it above the cap, and
\* nothing spawns until it is below the cap again.
C35_CapGatesGrowth ==
    /\ ActiveCount(enemies) <= maxSimultaneousEnemies
    /\ [][ActiveCount(enemies') > ActiveCount(enemies)
             => ActiveCount(enemies') <= maxSimultaneousEnemies']_vars

\* The slider has lowered the cap below the number of enemies alive while
\* the wave has more to spawn.
C35_Witness ==
    /\ isRunning /\ waveInProgress
    /\ history.levelSets > 0
    /\ waveEnemiesSpawned < waveTotalEnemies
    /\ ActiveCount(enemies) > maxSimultaneousEnemies

\* C36: while the frames go on, every reload that starts completes:
\* isReloading is false again and the magazine is full, also when the
\* weapon's model has not loaded, when the player switches weapon or enters
\* a vehicle during the reload.
C36_ReloadCompletes ==
    player.isReloading ~> (~player.isReloading /\ player.ammo = player.maxAmmo)

\* C37: a press of the reload key refills the ammo only when the reload
\* timer runs out: the key press itself, handled by Player.onKeyDown and by
\* InputManager.handleKeyAction, leaves the ammo at its value.
C37_RefillAtExpiry ==
    [][history'.keys = history.keys + 1 => player'.ammo = player.ammo]_vars

\* A step in which the load callback of a weapon model runs.
ModelArrives ==
    \E index \in 0..1 :
        ~player.weapons[index].model /\ player'.weapons[index].model

\* C38: the load callback of a weapon model, whenever it runs among shots,
\* reloads and weapon switches, leaves the player's ammo as it was.
C38_LoadKeepsAmmo == [][ModelArrives => player'.ammo = player.ammo]_vars

C40_CooldownRuns ==
    [][(/\ isRunning
        /\ history'.frames = history.frames + 1
        /\ player.shootCooldown > 0)
          => player'.shootCooldown < player.shootCooldown]_vars

====
